---- MODULE Spec2Model ----
(***************************************************************************)
(* State-machine model of the perception core of noProct: the resource     *)
(* monitor (src/core/optimizer.py), the byte-budgeted result cache, the    *)
(* thread pools (src/core/thread_manager.py), the adaptive screen capture  *)
(* (src/detection/optimized_capture.py), the detection engine              *)
(* (src/detection/detector.py, ml_detector.py) and the classifier ensemble *)
(* (src/ml/models.py).                                                     *)
(*                                                                         *)
(* Conventions.  Wall-clock time (time.time(), datetime.now()) is the      *)
(* variable now, in whole seconds.  Probabilities are integers in percent  *)
(* (0..100) and Detection confidences integers in millionths; weighted     *)
(* averages are kept as a numerator and a denominator so that no rounding  *)
(* is introduced.  Python objects                                          *)
(* that are shared by reference (frames, Detection records) are integers   *)
(* naming the object, with the fields held in a heap function.  A Python   *)
(* dict is a function together with its insertion order where the code     *)
(* depends on the order.  An Optional value is a set with at most one       *)
(* element: None is the empty set and a value v is {v}.                    *)
(***************************************************************************)
EXTENDS Integers, Sequences, FiniteSets, TLC

(***************************************************************************)
(* Bounds of the model.                                                    *)
(***************************************************************************)
\* cache budget (CacheManager.max_size) in abstract size units
MaxSize == 3
\* number of clock ticks explored after start-up
TimeSteps == 3
\* number of tasks handed to submit_task
MaxTasks == 2
\* number of pool replacements (mode-change notifications)
MaxResizes == 2
\* number of image objects kept alive by the capture layer
MaxFrames == 4
\* number of retraining passes
MaxTrains == 1
\* number of loop threads of one component that outlive a stop and a start
MaxRestarts == 1
\* stop() / stop_monitoring(): join(timeout=2)
JoinTimeout == 2
\* number of capture_regions calls, and of regions in one call
MaxRegionCalls == 1
MaxRegions == 2
\* number of add_training_sample calls
MaxSamples == 102
\* number of retraining passes started by add_training_sample
MaxPasses == 3
\* number of ActiveLearning objects constructed after start-up
MaxLoads == 1
\* number of Detection objects produced by the strategy loop
MaxDetections == 1
\* number of detect() calls
MaxDetectCalls == 2
\* config 'performance.cache_ttl' of the detector, in seconds
cache_ttl == 2
\* number of schedule_task / schedule_recurring calls made by callers
MaxSchedCalls == 2
\* number of tasks the scheduler loop hands to the thread pool
MaxDispatch == 4
\* number of callbacks registered for mode changes
MaxCallbacks == 4
\* ThreadSafeCache(max_size): capacity of the access-count cache, in entries
ThreadCacheMaxSize == 2
\* number of get calls on the access-count cache
MaxGets == 4

None == {}
Some(v) == {v}
The(x) == CHOOSE v \in x : TRUE

VARIABLES
    now,            \* time.time()
    \* ---- CacheManager (optimizer.py) ----
    cache,          \* dict key -> value, as a sequence of [key, value] in insertion order
    access_times,   \* dict key -> last access time
    sizes,          \* dict key -> size_bytes
    total_size,     \* running byte total
    evictions,      \* what _evict_lru removed during the last cache operation (history)
    \* ---- ResourceManager (optimizer.py) ----
    power_mode,     \* resource_manager.power_mode
    resource_profile, \* last sampled ResourceProfile, or None
    monitor,        \* ResourceManager.monitoring, and whether the monitor thread runs its loop
    requested_mode, \* the mode last passed to set_power_mode by a caller (history)
    resize_pc,      \* position of the thread inside the mode-change callbacks
    mode_change_callbacks, \* resource_manager.mode_change_callbacks, in registration order
    callback_log,   \* the last set_power_mode call: mode, callbacks invoked (history)
    \* ---- ThreadPoolManager (thread_manager.py) ----
    pools,          \* every executor triple created so far; the last one is installed
    tasks,          \* per task: its state, kind and the pool generation it went to
    stats,          \* tasks_submitted / tasks_completed / tasks_failed
    \* ---- TaskScheduler (thread_manager.py) ----
    scheduled_tasks, \* the PriorityQueue of (priority, scheduled_time, task) entries
    sched_running,  \* task_scheduler.running
    sched_loop,     \* position and locals of the thread in _scheduler_loop
    sched_submitted, \* entries handed to submit_task whose function has not run yet
    sched_log,      \* calls made, dispatch order, runs per task (history)
    \* ---- ThreadSafeCache (thread_manager.py) ----
    thread_cache,   \* cache (its keys in dict order), access_count, hit_count, miss_count
    thread_cache_log, \* the last put: its key, the state before, what _evict removed (history)
    \* ---- OptimizedScreenCapture (optimized_capture.py) ----
    frames,         \* heap of image objects: frames[id] = [hash, shape]
    last_capture_time,
    last_capture_hash,
    previous_frame, \* Optional reference to an image object
    capture_log,    \* the last two capture_screen calls (history)
    regions_call,   \* the capture_regions call in progress, and what it returned
    \* ---- MLQuestionDetector / ActiveLearning (models.py) ----
    scaler,         \* the StandardScaler in use
    models,         \* rf / gb / mlp / nn / cnn: the scorer objects in use
    train_log,      \* the last retraining pass (history)
    prediction,     \* the result of the last predict() (history)
    training_data,  \* ActiveLearning.training_data: the samples, oldest first
    data_file,      \* data/training_data.json: Optional list of samples
    learn_log,      \* add_training_sample calls and the last pass (history)
    \* ---- OptimizedQuestionDetector / MLEnhancedDetector (detector.py) ----
    ml_enabled,     \* config 'ml_detection' of the MLEnhancedDetector
    detections,     \* heap of Detection objects
    detection_cache, \* dict screenshot_hash -> (cached_time, Detection)
    detection_history, \* list of Detection references
    metrics,        \* total_detections / successful_detections
    pending_feedback, \* MLEnhancedDetector.pending_feedback (Detection references)
    detect_log,     \* the last detect() call (history)
    detect_input,   \* the frame and the failing strategies of a recorded detect() call (history)
    dup_call,       \* the last is_duplicate() call (history)
    service,        \* ServiceManager: running, paused, error_count, end_time
    main_threads,   \* the threads start() created for _main_loop, oldest first
    svc_log,        \* the polling loop's iterations (history)
    limits,         \* RateLimiter.limits: operation -> (max_attempts, window_seconds)
    attempts,       \* RateLimiter.attempts: operation -> times of the recorded attempts
    rate_log,       \* check_limit calls and their results (history)
    config,         \* Config.config of the first Config object
    config_file,    \* the JSON document in the file at config_path
    config_log,     \* the last Config operation and what it returned (history)
    class_config    \* the class attribute Config.DEFAULT_CONFIG, and the sections
                    \* of config that are the very dict objects it holds

cacheVars == <<cache, access_times, sizes, total_size, evictions>>
notifyVars == <<mode_change_callbacks, callback_log>>
modeVars == <<power_mode, resource_profile, monitor, requested_mode, resize_pc, notifyVars>>
schedVars == <<scheduled_tasks, sched_running, sched_loop, sched_submitted, sched_log>>
lfuVars == <<thread_cache, thread_cache_log>>
threadVars == <<schedVars, lfuVars>>
poolVars == <<pools, tasks, stats, threadVars>>
captureVars == <<frames, last_capture_time, last_capture_hash, previous_frame, capture_log,
                 regions_call>>
learnVars == <<training_data, data_file, learn_log>>
mlVars == <<scaler, models, train_log, prediction, learnVars>>
rateVars == <<limits, attempts, rate_log>>
configVars == <<config, config_file, config_log, class_config>>
utilVars == <<rateVars, configVars>>
svcVars == <<service, main_threads, svc_log, utilVars>>
detectVars == <<ml_enabled, detections, detection_cache, detection_history, metrics,
                pending_feedback, detect_log, detect_input, dup_call, svcVars>>

vars == <<now, cacheVars, modeVars, poolVars, captureVars, mlVars, detectVars>>

(***************************************************************************)
(* Generic helpers.                                                        *)
(***************************************************************************)
Range(s) == {s[i] : i \in 1..Len(s)}

\* f with key k bound to v (dict assignment d[k] = v)
DictSet(f, k, v) == [x \in (DOMAIN f) \cup {k} |-> IF x = k THEN v ELSE f[x]]

\* f without key k (del d[k])
DictDel(f, k) == [x \in (DOMAIN f) \ {k} |-> f[x]]

EmptyDict == [x \in {} |-> 0]

\* d.get(k, default)
DictGet(f, k, default) == IF k \in DOMAIN f THEN f[k] ELSE default

(***************************************************************************)
(* CacheManager: byte-budgeted LRU cache.                                  *)
(***************************************************************************)
CacheKeys == {"last_screenshot", "k1", "k2"}

\* largest interval of the capture settings table; the clock starts beyond it
MaxInterval == 10

CacheKeySet(c) == {c[i].key : i \in 1..Len(c)}

CacheIndex(c, k) == CHOOSE i \in 1..Len(c) : c[i].key = k

CacheValue(c, k) == c[CacheIndex(c, k)].value

\* the four fields of a CacheManager as one record, with the (empty) list of
\* the evictions of the operation that is starting: each _evict_lru call adds
\* the key it removed and the access_times it chose from
CacheState == [cache |-> cache, access_times |-> access_times,
               sizes |-> sizes, total_size |-> total_size, evicted |-> <<>>]

\* an eviction that takes the first key in dict order (oldest insertion)
FirstKey(st) == st.cache[1].key

\* min(self.access_times.keys(), key=lambda k: self.access_times[k]):
\* the first key, in dict order, whose access time is minimal
LruKey(st) ==
    LET idx == CHOOSE i \in 1..Len(st.cache) :
                 /\ \A j \in 1..Len(st.cache) :
                       st.access_times[st.cache[i].key] <= st.access_times[st.cache[j].key]
                 /\ \A j \in 1..(i-1) :
                       st.access_times[st.cache[j].key] > st.access_times[st.cache[i].key]
    IN st.cache[idx].key

EvictLru(st) ==
    IF Len(st.cache) = 0 THEN st
    ELSE LET lru_key == LruKey(st) IN
         [cache        |-> SelectSeq(st.cache, LAMBDA e : e.key # lru_key),
          access_times |-> DictDel(st.access_times, lru_key),
          sizes        |-> DictDel(st.sizes, lru_key),
          total_size   |-> st.total_size - DictGet(st.sizes, lru_key, 0),
          evicted      |-> Append(st.evicted, [key |-> lru_key,
                                               access_times |-> st.access_times])]

\* while self.total_size + size_bytes > self.max_size and self.cache: self._evict_lru()
RECURSIVE EvictLoop(_, _)
EvictLoop(st, size_bytes) ==
    IF st.total_size + size_bytes > MaxSize /\ Len(st.cache) > 0
    THEN EvictLoop(EvictLru(st), size_bytes)
    ELSE st

\* the dict after self.cache[key] = value: an existing key keeps its place
CacheAssign(c, key, value) ==
    IF key \in CacheKeySet(c)
    THEN [i \in 1..Len(c) |-> IF c[i].key = key THEN [key |-> key, value |-> value] ELSE c[i]]
    ELSE Append(c, [key |-> key, value |-> value])

\* CacheManager.put(key, value, size_bytes) at time t
CachePutState(st, key, value, size_bytes, t) ==
    LET s1 == IF key \in CacheKeySet(st.cache)
              THEN [st EXCEPT !.total_size = st.total_size - DictGet(st.sizes, key, 0)]
              ELSE st
        s2 == EvictLoop(s1, size_bytes)
    IN [cache        |-> CacheAssign(s2.cache, key, value),
        access_times |-> DictSet(s2.access_times, key, t),
        sizes        |-> DictSet(s2.sizes, key, size_bytes),
        total_size   |-> s2.total_size + size_bytes,
        evicted      |-> s2.evicted]

\* CacheManager.get(key) at time t: the state after, and the value returned
CacheGetState(st, key, t) ==
    IF key \in CacheKeySet(st.cache)
    THEN [st EXCEPT !.access_times = DictSet(st.access_times, key, t)]
    ELSE st

CacheGetValue(st, key) ==
    IF key \in CacheKeySet(st.cache) THEN Some(CacheValue(st.cache, key)) ELSE None

\* CacheManager.clear()
CacheClearState ==
    [cache |-> <<>>, access_times |-> EmptyDict, sizes |-> EmptyDict, total_size |-> 0,
     evicted |-> <<>>]

SetCache(st) ==
    /\ cache' = st.cache
    /\ access_times' = st.access_times
    /\ sizes' = st.sizes
    /\ total_size' = st.total_size
    /\ evictions' = st.evicted

(***************************************************************************)
(* ResourceManager: profile sampling and mode resolution.                  *)
(***************************************************************************)
HIGH_PERFORMANCE == "high"
BALANCED == "balanced"
POWER_SAVER == "saver"
ADAPTIVE == "adaptive"

ConcreteModes == {HIGH_PERFORMANCE, BALANCED, POWER_SAVER}
PowerMode == ConcreteModes \cup {ADAPTIVE}

\* values psutil can report, chosen around the thresholds of the code
CpuVals == {10, 60, 61, 90}
MemVals == {20, 70, 71, 90}
BatteryVals == {None} \cup {Some(b) : b \in {0, 15, 19, 25, 50}}

\* _get_resource_profile: no battery means power_plugged = True
Profiles ==
    {p \in [cpu_percent : CpuVals, memory_percent : MemVals,
            battery_percent : BatteryVals, power_plugged : BOOLEAN] :
        p.battery_percent = None => p.power_plugged}

\* Python truth value of an Optional[float]
Truthy(x) == x # None /\ x # Some(0)

\* ResourceProfile.is_low_resource
is_low_resource(p) ==
    \/ p.cpu_percent > 80
    \/ p.memory_percent > 85
    \/ (Truthy(p.battery_percent) /\ The(p.battery_percent) < 20)

\* ResourceProfile.is_high_load
is_high_load(p) == p.cpu_percent > 60 \/ p.memory_percent > 70

\* _adjust_adaptive_mode: the new_mode it determines
AdaptiveMode(p) ==
    IF Truthy(p.battery_percent) /\ The(p.battery_percent) < 30 /\ ~p.power_plugged
    THEN POWER_SAVER
    ELSE IF is_high_load(p) THEN POWER_SAVER
    ELSE IF is_low_resource(p) THEN BALANCED
    ELSE HIGH_PERFORMANCE

(***************************************************************************)
(* ThreadPoolManager: three executors per generation.                      *)
(***************************************************************************)
Kinds == {"general", "io", "cpu"}
Tasks == 1..MaxTasks

Min(a, b) == IF a < b THEN a ELSE b

\* pool_configs.get(mode, pool_configs[BALANCED])
PoolConfig(mode) ==
    CASE mode = HIGH_PERFORMANCE -> [core_threads |-> 8, max_threads |-> 16]
      [] mode = POWER_SAVER      -> [core_threads |-> 2, max_threads |-> 4]
      [] OTHER                   -> [core_threads |-> 4, max_threads |-> 8]

\* max_workers of the three executors made by _initialize_pools
MaxWorkers(mode, kind) ==
    CASE kind = "general" -> PoolConfig(mode).max_threads
      [] kind = "io"      -> Min(PoolConfig(mode).max_threads * 2, 20)
      [] kind = "cpu"     -> PoolConfig(mode).core_threads

\* _initialize_pools: a fresh executor triple for the current power mode
NewPools(mode) ==
    [mode |-> mode, shutdown |-> FALSE, work_queue |-> [k \in Kinds |-> <<>>]]

\* a shutdown that drops the queued work items (shutdown with cancel_futures)
ShutdownPoolsCancelling(ps) ==
    [g \in 1..Len(ps) |->
        IF g = Len(ps)
        THEN [ps[g] EXCEPT !.shutdown = TRUE, !.work_queue = [k \in Kinds |-> <<>>]]
        ELSE ps[g]]

\* _shutdown_pools(wait=False): executor.shutdown(wait=False) marks the executor
\* shut down; work items already queued stay queued and are still run
ShutdownPools(ps) ==
    [g \in 1..Len(ps) |-> IF g = Len(ps) THEN [ps[g] EXCEPT !.shutdown = TRUE] ELSE ps[g]]

\* the generation self.executor / io_executor / cpu_executor refer to
CurrentGen == Len(pools)

Running(g, k) ==
    {t \in Tasks : /\ tasks[t].st \in {"running", "completing", "failing"}
                   /\ tasks[t].gen = g /\ tasks[t].kind = k}

\* drained: the task was taken from the queue of an executor already shut down
\* seen: the counter value a thread read in its unlocked 'stats[...] += 1'
NoTask == [st |-> "new", kind |-> "general", gen |-> 0, drained |-> FALSE, seen |-> 0]

(***************************************************************************)
(* OptimizedScreenCapture.                                                 *)
(***************************************************************************)
\* quality_levels.get(mode, quality_levels[BALANCED])['interval']
Interval(mode) ==
    CASE mode = HIGH_PERFORMANCE -> 2
      [] mode = POWER_SAVER      -> 10
      [] OTHER                   -> 5

\* _get_current_settings: the row of quality_levels that applies (scale,
\* grayscale and compression fix the shape of the optimized image)
CurrentSettings(mode) == IF mode \in ConcreteModes THEN mode ELSE BALANCED

\* self.change_threshold
change_threshold == 5000

\* perceptual hashes a grabbed image can have, and the counts
\* np.sum(diff > 30) can give
Hashes == {"h1", "h2"}

\* optimizer.Priority: the value of each member
Priority == [CRITICAL |-> 1, HIGH |-> 2, NORMAL |-> 3, LOW |-> 4, IDLE |-> 5]

\* sorted(regions, key=lambda r: r.priority.value), as the positions of the
\* input list in the order of the sorted list; sorted() is stable
SortedRegions(regions) ==
    LET n == Len(regions)
        Rank(i) == Cardinality({j \in 1..n :
                      \/ regions[j].priority < regions[i].priority
                      \/ regions[j].priority = regions[i].priority /\ j < i}) + 1
    IN [k \in 1..n |-> CHOOSE i \in 1..n : Rank(i) = k]

\* the skip test with HIGH itself counted as low priority
SkipRegionFromHigh(profile, region) ==
    /\ profile # None
    /\ is_high_load(The(profile))
    /\ region.priority >= Priority.HIGH

\* capture_regions: "if resource_manager.resource_profile and
\* resource_manager.resource_profile.is_high_load:
\*     if region.priority.value > Priority.HIGH.value:"
SkipRegion(profile, region) ==
    /\ profile # None
    /\ is_high_load(The(profile))
    /\ region.priority > Priority.HIGH

\* the region lists handed to capture_regions: the k-th region is named rk
RegionNames == <<"r1", "r2", "r3">>
RegionLists ==
    UNION {{[k \in 1..n |-> [name |-> RegionNames[k], priority |-> prio[k]]] :
               prio \in [1..n -> {1, 2, 3, 5}]} : n \in 0..MaxRegions}

\* the load samples on both sides of the is_high_load thresholds
LoadProfiles ==
    {p \in Profiles : /\ <<p.cpu_percent, p.memory_percent>> \in {<<60, 70>>, <<61, 70>>, <<60, 71>>}
                      /\ p.battery_percent = None}
ChangePixels == {4999, 5000}
Regions == {None, Some("r1")}

\* img.nbytes in the size units of the cache budget
FrameBytes(shape) == 1

\* _should_process(image) for an image with hash h and shape sh, when the
\* frame difference counts change_pixels: what it returns and the fields after.
\* copy_id is the object image.copy() creates.
ShouldProcess(h, sh, change_pixels, copy_id) ==
    IF Some(h) = last_capture_hash
    THEN [accept |-> FALSE, last_capture_hash |-> last_capture_hash,
          previous_frame |-> previous_frame]
    ELSE IF /\ previous_frame # None
            /\ frames[The(previous_frame)].shape = sh
            /\ change_pixels < change_threshold
    THEN [accept |-> FALSE, last_capture_hash |-> Some(h),
          previous_frame |-> previous_frame]
    ELSE [accept |-> TRUE, last_capture_hash |-> Some(h),
          previous_frame |-> Some(copy_id)]

\* the record of one capture_screen call kept in capture_log
CaptureRecord(window, grabbed, ret) ==
    [window |-> window, grabbed |-> grabbed, ret |-> ret]

LogCapture(rec) ==
    capture_log' = IF Len(capture_log) < 2 THEN Append(capture_log, rec)
                   ELSE <<capture_log[2], rec>>

(***************************************************************************)
(* MLQuestionDetector: scorers, ensemble and retraining.                   *)
(***************************************************************************)
\* keys of ensemble_weights, in the order predict() fills all_predictions
ScorerNames == <<"rf", "gb", "mlp", "nn", "cnn">>
Scorers == Range(ScorerNames)

\* self.ensemble_weights, in hundredths
ensemble_weights ==
    [m \in Scorers |-> CASE m = "nn" -> 25 [] m = "cnn" -> 15 [] OTHER -> 20]

\* probabilities (percent) a scorer can return
ScoreVals == {0, 100}

\* a scorer or scaler object: the pass that created it (0: loaded at start-up
\* or constructed by __init__) and whether it has been fitted
Obj(ver, fitted) == [ver |-> ver, fitted |-> fitted]

\* a scorer the code treats as present: "if self.rf_classifier:" / "if not self.nn_model"
Present(ms, m) == ms[m] # None

\* predict_with_ml / predict_with_nn / predict_with_cnn: the entries of
\* all_predictions, given the probability sc[m] each scorer would return.
\* The three classifiers are entered only when present; 'nn' and 'cnn' are
\* always entered, with 0.5 when the network is absent.
AllPredictions(ms, sc) ==
    [m \in {x \in Scorers : Present(ms, x) \/ x \in {"nn", "cnn"}} |->
        IF Present(ms, m) THEN sc[m] ELSE 50]

RECURSIVE SumOver(_, _, _)
SumOver(S, f, g) ==
    IF S = {} THEN 0
    ELSE LET x == CHOOSE y \in S : TRUE
         IN f[x] * g[x] + SumOver(S \ {x}, f, g)

One == [m \in Scorers |-> 1]

\* predict(): the weighted ensemble.  ensemble_score = num / den when den > 0.
\* A scorer that was constructed but never fitted makes predict_proba raise.
Predict(ms, sc) ==
    IF \E m \in Scorers : Present(ms, m) /\ ~The(ms[m]).fitted
    THEN [status |-> "error"]
    ELSE LET all == AllPredictions(ms, sc)
             num == SumOver(DOMAIN all, all, ensemble_weights)
             den == SumOver(DOMAIN all, One, ensemble_weights)
         IN [status |-> "ok", model_scores |-> all, num |-> num, den |-> den,
             is_question |-> num > 50 * den,
             present |-> {m \in Scorers : Present(ms, m)}]

\* the points at which train_models can raise, in program order:
\* train_test_split, scaler.fit, rf fit, gb fit, mlp fit, save_models
TrainOutcomes == {"skipped", "split", "scale", "rf", "gb", "mlp", "save", "ok"}

\* position of a failure point in train_models (8: no failure)
TrainStage(o) ==
    CASE o = "skipped" -> 0 [] o = "split" -> 1 [] o = "scale" -> 2 [] o = "rf" -> 3
      [] o = "gb" -> 4 [] o = "mlp" -> 5 [] o = "save" -> 6 [] OTHER -> 7

\* train_models: the scaler after a pass numbered v that ends with outcome o.
\* self.scaler.fit(X_train) refits the live scaler object in place; fit()
\* resets the object before it looks at the data, so a fit that raises leaves
\* it unfitted (an unfitted scaler is then as it was).
TrainScaler(sc, v, o) ==
    IF TrainStage(o) <= 1 THEN sc
    ELSE IF o = "scale" THEN (IF sc.fitted THEN Obj(v, FALSE) ELSE sc)
    ELSE Obj(v, TRUE)

\* train_models: the scorers after the pass.  Each classifier attribute is
\* assigned a new object first and fitted afterwards.
TrainModels(ms, v, o) ==
    [m \in Scorers |->
        CASE m = "rf"  -> IF TrainStage(o) < 3 THEN ms[m] ELSE Some(Obj(v, o # "rf"))
          [] m = "gb"  -> IF TrainStage(o) < 4 THEN ms[m] ELSE Some(Obj(v, o # "gb"))
          [] m = "mlp" -> IF TrainStage(o) < 5 THEN ms[m] ELSE Some(Obj(v, o # "mlp"))
          [] OTHER     -> ms[m]]

\* train_models: "if len(training_data) < 100" skips the pass
MinTrainingData == 100

\* ActiveLearning.min_samples_for_retrain
min_samples_for_retrain == 50

\* the samples numbered 1..n
Samples(n) == [i \in 1..n |-> i]

TrainResult(o) == IF o = "skipped" THEN "skipped" ELSE IF o = "ok" THEN "ok" ELSE "failed"

\* whether the exception of a failed pass leaves the retrain_models call:
\* neither train_models, ActiveLearning.retrain_models nor
\* MLEnhancedDetector.retrain_models has an exception handler
RetrainRaises(o) == TrainResult(o) = "failed"

(***************************************************************************)
(* OptimizedQuestionDetector / MLEnhancedDetector.                         *)
(***************************************************************************)
\* confidences are held in millionths, so that the 0.6 / 0.4 blend of
\* MLEnhancedDetector.detect stays exact over the calls explored
Unit == 10 * 10 * 10 * 10 * 10 * 10
Pct(n) == n * (Unit \div 100)

\* question texts, as sequences of characters
T_ab == <<"a", " ", "b">>
T_ba == <<"b", " ", "a">>
T_aa == <<"a", " ", "a">>
T_a == <<"a">>
T_long10 == <<"a", "a", "a", "a", "a", "a", "a", "a", "a", "a">>
T_long11 == <<"a", "a", "a", "a", "a", "a", "a", "a", "a", "a", "b">>

\* what the strategies see in a screenshot.  The screenshot hash (md5 of the
\* pixels) identifies the scene, so a scene stands for its own hash.
\*   question_text, options : the OCR components (text "" when none)
\*   pattern_hits           : how many of the 4 question_patterns match
\*   context                : _matches_context(question_text)
\*   region                 : components['regions'] has 'question'
\*   button_count, text_regions : what _analyze_ui_structure counts
\*   ml_confidence          : ml_detector.predict(...)['confidence'], percent
SceneTexts == {<<>>, T_long11}

ScenesOf(texts) ==
    {sc \in [question_text : texts, pattern_hits : {0, 2},
             options : {0, 2}, context : {FALSE}, region : BOOLEAN,
             ui : {<<0, 0>>, <<2, 1>>, <<4, 1>>}, ml_confidence : {0, 100}] :
        sc.question_text = <<>> => (sc.pattern_hits = 0 /\ sc.options = 0 /\ ~sc.region)}

Scenes == ScenesOf(SceneTexts)

\* config 'confidence_threshold' (default 0.5)
confidence_threshold == 50

\* self.max_history
max_history == 100

\* the text-pattern confidence without the min(confidence, 1.0) cap
TextConfidenceUncapped(sc) ==
    Pct(25) * sc.pattern_hits
    + (IF sc.options >= 2 THEN Pct(30) ELSE 0)
    + (IF 10 < Len(sc.question_text) /\ Len(sc.question_text) < 500 THEN Pct(20) ELSE 0)
    + (IF sc.context THEN Pct(25) ELSE 0)

\* _detect_by_text_patterns: the confidence it computes
TextConfidence(sc) ==
    LET c == Pct(25) * sc.pattern_hits
             + (IF sc.options >= 2 THEN Pct(30) ELSE 0)
             + (IF 10 < Len(sc.question_text) /\ Len(sc.question_text) < 500
                THEN Pct(20) ELSE 0)
             + (IF sc.context THEN Pct(25) ELSE 0)
    IN Min(c, Pct(100))

\* _analyze_ui_structure: the score for the counted buttons and text regions
UiScore(sc) ==
    LET button_count == sc.ui[1]
        text_regions == sc.ui[2]
        score == (IF button_count >= 2 THEN Pct(40) ELSE 0)
                 + (IF text_regions >= 1 THEN Pct(30) ELSE 0)
                 + (IF button_count >= 4 THEN Pct(30) ELSE 0)
    IN Min(score, Pct(100))

\* the text-pattern heuristic, on its own, classifies the scene as a question
TextQuestion(sc) ==
    sc.question_text # <<>> /\ TextConfidence(sc) >= Pct(confidence_threshold)

\* the ensemble, on its own, classifies the scene as a question
\* (predict(): is_question = ensemble_score > 0.5)
MlQuestion(sc) == sc.ml_confidence > 50

\* a new Detection object as the strategies build it
NewDetection(sc, confidence, method, t) ==
    [question_text |-> sc.question_text, confidence |-> confidence,
     region |-> sc.region, timestamp |-> t,
     detection_method |-> <<method>>, screenshot_hash |-> <<>>]

\* the four strategies.  Each gives [r |-> "none"], [r |-> "raise"] when it
\* raises (its OCR or OpenCV call fails), or [r |-> "hit", d |-> Detection]
DetectByTemplate(sc, t, fails) == [r |-> "none"]

\* the text-pattern strategy with a confidence equal to the threshold rejected
DetectByTextPatternsStrict(sc, t, fails) ==
    IF "text_patterns" \in fails THEN [r |-> "raise"]
    ELSE IF sc.question_text = <<>> THEN [r |-> "none"]
    ELSE IF TextConfidence(sc) > Pct(confidence_threshold)
    THEN [r |-> "hit", d |-> NewDetection(sc, TextConfidence(sc), "text_patterns", t)]
    ELSE [r |-> "none"]

DetectByTextPatterns(sc, t, fails) ==
    IF "text_patterns" \in fails THEN [r |-> "raise"]
    ELSE IF sc.question_text = <<>> THEN [r |-> "none"]
    ELSE IF TextConfidence(sc) >= Pct(confidence_threshold)
    THEN [r |-> "hit", d |-> NewDetection(sc, TextConfidence(sc), "text_patterns", t)]
    ELSE [r |-> "none"]

DetectByUiAnalysis(sc, t, fails) ==
    IF "ui_analysis" \in fails THEN [r |-> "raise"]
    ELSE IF UiScore(sc) > Pct(70) /\ sc.question_text # <<>>
    THEN [r |-> "hit", d |-> NewDetection(sc, UiScore(sc), "ui_analysis", t)]
    ELSE [r |-> "none"]

DetectByMlClassification(sc, t, fails) == [r |-> "none"]

\* a strategies list with ui_analysis tried before text_patterns
strategies_reordered == <<"template", "ui_analysis", "text_patterns", "ml_classification">>

\* the strategies list of detect(), in its order
strategies == <<"template", "text_patterns", "ui_analysis", "ml_classification">>

RunStrategy(name, sc, t, fails) ==
    CASE name = "template"      -> DetectByTemplate(sc, t, fails)
      [] name = "text_patterns" -> DetectByTextPatterns(sc, t, fails)
      [] name = "ui_analysis"   -> DetectByUiAnalysis(sc, t, fails)
      [] OTHER                  -> DetectByMlClassification(sc, t, fails)

\* a strategy loop without the inner try/except: a strategy that raises ends
\* the loop, and detect() raises DetectionError from its outer handler
RECURSIVE StrategyLoopUnguarded(_, _, _, _, _, _)
StrategyLoopUnguarded(list, i, sc, t, fails, acc) ==
    IF i > Len(list) THEN acc
    ELSE LET res == RunStrategy(list[i], sc, t, fails)
             called == Append(acc.calls, list[i])
         IN IF res.r = "hit"
            THEN [calls |-> called, outcomes |-> Append(acc.outcomes, "hit"),
                  detection |-> Some([res.d EXCEPT !.detection_method = <<list[i]>>,
                                                  !.screenshot_hash = sc]),
                  error |-> FALSE]
            ELSE IF res.r = "raise"
            THEN [calls |-> called, outcomes |-> Append(acc.outcomes, "raise"),
                  detection |-> None, error |-> TRUE]
            ELSE StrategyLoopUnguarded(list, i + 1, sc, t, fails,
                     [acc EXCEPT !.calls = called, !.outcomes = Append(@, res.r)])

\* the for loop of detect() from position i: the strategies it invokes,
\* what each gave, and the Detection it ends with (detection_method and
\* screenshot_hash set by the loop); error: an exception left the loop
RECURSIVE StrategyLoop(_, _, _, _, _, _)
StrategyLoop(list, i, sc, t, fails, acc) ==
    IF i > Len(list) THEN acc
    ELSE LET res == RunStrategy(list[i], sc, t, fails)
             called == Append(acc.calls, list[i])
         IN IF res.r = "hit"
            THEN [calls |-> called, outcomes |-> Append(acc.outcomes, "hit"),
                  detection |-> Some([res.d EXCEPT !.detection_method = <<list[i]>>,
                                                  !.screenshot_hash = sc]),
                  error |-> FALSE]
            ELSE StrategyLoop(list, i + 1, sc, t, fails,
                     [acc EXCEPT !.calls = called, !.outcomes = Append(@, res.r)])

NoCalls == [calls |-> <<>>, outcomes |-> <<>>, detection |-> None, error |-> FALSE]

\* _check_cache(screenshot_hash) at time t: the cached Detection reference
\* or None, and the cache after (an expired entry is deleted)
CheckCacheHitInclusive(dc, sc, t) == sc \in DOMAIN dc /\ t - dc[sc].time <= cache_ttl

CheckCacheHit(dc, sc, t) == sc \in DOMAIN dc /\ t - dc[sc].time < cache_ttl

CheckCacheState(dc, sc, t) ==
    IF sc \in DOMAIN dc /\ ~(t - dc[sc].time < cache_ttl) THEN DictDel(dc, sc) ELSE dc

\* _update_cache(screenshot_hash, detection) at time t
UpdateCache(dc, sc, id, t) ==
    LET d1 == DictSet(dc, sc, [time |-> t, detection |-> id])
    IN [k \in {x \in DOMAIN d1 : ~(t - d1[x].time > cache_ttl)} |-> d1[k]]

\* _add_to_history(detection)
AddToHistory(h, id) ==
    LET h1 == Append(h, id) IN IF Len(h1) > max_history THEN Tail(h1) ELSE h1

\* ActiveLearning.should_request_label(confidence):
\* uncertainty = 1 - |confidence - 0.5| * 2 > uncertainty_threshold (0.3)
Abs(x) == IF x < 0 THEN 0 - x ELSE x

should_request_label(confidence) ==
    Unit - Abs(confidence - Pct(50)) * 2 > Pct(30)

\* _queue_for_feedback: append, keeping the 10 newest
QueueForFeedback(q, id) ==
    LET q1 == Append(q, id) IN IF Len(q1) > 10 THEN Tail(q1) ELSE q1

\* the blend of MLEnhancedDetector.detect:
\* traditional_confidence * 0.6 + ml_confidence * 0.4
CombinedConfidence(traditional, ml) == (60 * traditional + 40 * ml) \div 100

(***************************************************************************)
(* difflib.SequenceMatcher(None, a, b).ratio(), as is_duplicate uses it.   *)
(***************************************************************************)
\* length of the common block that starts at a[i] and b[j]
RECURSIVE BlockLen(_, _, _, _, _, _)
BlockLen(a, i, ahi, b, j, bhi) ==
    IF i > ahi \/ j > bhi THEN 0
    ELSE IF a[i] # b[j] THEN 0
    ELSE 1 + BlockLen(a, i + 1, ahi, b, j + 1, bhi)

\* find_longest_match(alo, ahi, blo, bhi) on the inclusive ranges alo..ahi,
\* blo..bhi: the longest common block; of those the one starting earliest
\* in a, and of those the one starting earliest in b.  <<i, j, 0>> if none.
FindLongestMatch(a, alo, ahi, b, blo, bhi) ==
    LET pairs == (alo..ahi) \X (blo..bhi)
        len == [p \in pairs |-> BlockLen(a, p[1], ahi, b, p[2], bhi)]
        best == CHOOSE p \in pairs : \A q \in pairs :
                   \/ len[p] > len[q]
                   \/ len[p] = len[q] /\ p[1] < q[1]
                   \/ len[p] = len[q] /\ p[1] = q[1] /\ p[2] <= q[2]
    IN <<best[1], best[2], len[best]>>

\* get_matching_blocks(): total size of the matching blocks
RECURSIVE MatchingSize(_, _, _, _, _, _)
MatchingSize(a, alo, ahi, b, blo, bhi) ==
    IF alo > ahi \/ blo > bhi THEN 0
    ELSE LET m == FindLongestMatch(a, alo, ahi, b, blo, bhi)
         IN IF m[3] = 0 THEN 0
            ELSE m[3] + MatchingSize(a, alo, m[1] - 1, b, blo, m[2] - 1)
                      + MatchingSize(a, m[1] + m[3], ahi, b, m[2] + m[3], bhi)

\* ratio() as the pair <<2 * matches, total length>> (1.0 when both are empty)
Ratio(a, b) ==
    IF Len(a) + Len(b) = 0 THEN <<1, 1>>
    ELSE <<2 * MatchingSize(a, 1, Len(a), b, 1, Len(b)), Len(a) + Len(b)>>

\* is_duplicate with the window test written time_diff <= 2
is_duplicate_inclusive(hist, heap, text, timestamp) ==
    IF Len(hist) = 0 THEN FALSE
    ELSE LET last_detection == heap[hist[Len(hist)]]
             time_diff == timestamp - last_detection.timestamp
             similarity == Ratio(text, last_detection.question_text)
         IN IF time_diff <= 2
            THEN 10 * similarity[1] > 9 * similarity[2]
            ELSE FALSE

\* is_duplicate(detection), for the two fields of the Detection that it reads
is_duplicate(hist, heap, text, timestamp) ==
    IF Len(hist) = 0 THEN FALSE
    ELSE LET last_detection == heap[hist[Len(hist)]]
             time_diff == timestamp - last_detection.timestamp
             similarity == Ratio(text, last_detection.question_text)
         IN IF time_diff < 2
            THEN 10 * similarity[1] > 9 * similarity[2]
            ELSE FALSE

(***************************************************************************)
(* Actions: clock and CacheManager.                                        *)
(***************************************************************************)
Tick ==
    /\ now < MaxInterval + TimeSteps
    /\ now' = now + 1
    /\ UNCHANGED <<cacheVars, modeVars, poolVars, captureVars, mlVars, detectVars>>

\* cache_manager.put(key, value, size_bytes) by any user of the shared cache
CachePut(key, size_bytes) ==
    /\ SetCache(CachePutState(CacheState, key, 0, size_bytes, now))
    /\ UNCHANGED <<now, modeVars, poolVars, captureVars, mlVars, detectVars>>

\* cache_manager.get(key)
CacheGet(key) ==
    /\ SetCache(CacheGetState(CacheState, key, now))
    /\ UNCHANGED <<now, modeVars, poolVars, captureVars, mlVars, detectVars>>

\* cache_manager.clear()
CacheClear ==
    /\ SetCache(CacheClearState)
    /\ UNCHANGED <<now, modeVars, poolVars, captureVars, mlVars, detectVars>>

(***************************************************************************)
(* Actions: ResourceManager and the mode-change callbacks.                 *)
(***************************************************************************)
\* the callbacks the two singletons register when they are constructed
OwnCallbacks == <<"thread_pool", "screen_capture">>
\* callbacks other components register; these may raise
ExternalCallbacks == {"cb1", "cb2"}

\* first position of the sequence whose callback raises (0 if none)
FirstFailure(callbacks, fails) ==
    IF \E i \in 1..Len(callbacks) : callbacks[i] \in fails
    THEN CHOOSE i \in 1..Len(callbacks) :
            /\ callbacks[i] \in fails
            /\ \A j \in 1..(i-1) : callbacks[j] \notin fails
    ELSE 0

\* a notification loop without the try/except: the first callback that raises
\* ends the loop and the exception leaves set_power_mode
NotifyUnguarded(callbacks, mode, current, fails) ==
    LET k == FirstFailure(callbacks, fails)
        n == IF k = 0 THEN Len(callbacks) ELSE k
    IN [mode |-> Some(mode), registered |-> callbacks,
        calls |-> [i \in 1..n |-> [callback |-> callbacks[i], mode |-> mode,
                                   power_mode |-> current,
                                   raised |-> callbacks[i] \in fails]],
        returned |-> k = 0]

\* set_power_mode, "for callback in self.mode_change_callbacks: try:
\* callback(mode) except: pass": what each callback was called with, the value
\* of self.power_mode at that moment (current), whether it raised, and whether
\* set_power_mode returned normally
NotifyCallbacks(callbacks, mode, current, fails) ==
    [mode |-> Some(mode), registered |-> callbacks,
     calls |-> [i \in 1..Len(callbacks) |->
                  [callback |-> callbacks[i], mode |-> mode, power_mode |-> current,
                   raised |-> callbacks[i] \in fails]],
     returned |-> TRUE]

\* register_mode_change_callback(callback)
RegisterModeChangeCallback(cb) ==
    /\ Len(mode_change_callbacks) < MaxCallbacks
    /\ mode_change_callbacks' = Append(mode_change_callbacks, cb)
    /\ UNCHANGED <<now, cacheVars, power_mode, resource_profile, monitor, requested_mode, resize_pc,
                   callback_log, poolVars, captureVars, mlVars, detectVars>>

\* set_power_mode(mode): assigns the mode and runs the subscriber callbacks.
\* OptimizedScreenCapture._on_power_mode_change clears the shared cache;
\* ThreadPoolManager._on_power_mode_change first shuts the old pools down
\* (this step) and then creates the new ones (InitializePools), and other
\* threads run in between.
SetPowerModeSteps(mode) ==
    /\ resize_pc = "idle"
    /\ Len(pools) <= MaxResizes
    /\ power_mode' = mode
    /\ SetCache(CacheClearState)
    /\ pools' = ShutdownPools(pools)
    /\ resize_pc' = "initialize"
    /\ \E fails \in SUBSET (Range(mode_change_callbacks) \cap ExternalCallbacks) :
          callback_log' = NotifyCallbacks(mode_change_callbacks, mode, power_mode', fails)
    /\ UNCHANGED mode_change_callbacks

\* a caller (GUI, settings) selects a mode
SetPowerMode(mode) ==
    /\ SetPowerModeSteps(mode)
    /\ requested_mode' = mode
    /\ UNCHANGED <<now, resource_profile, monitor, tasks, stats, threadVars, captureVars, mlVars,
                   detectVars>>

\* second half of ThreadPoolManager._on_power_mode_change: _initialize_pools()
InitializePools ==
    /\ resize_pc = "initialize"
    /\ pools' = Append(pools, NewPools(power_mode))
    /\ resize_pc' = "idle"
    /\ UNCHANGED <<now, cacheVars, power_mode, resource_profile, monitor, requested_mode, notifyVars,
                   tasks, stats, threadVars, captureVars, mlVars, detectVars>>

\* one iteration of _monitor_loop that samples profile p
MonitorTick(p) ==
    /\ monitor.pc = "loop"
    /\ monitor.monitoring
    /\ resize_pc = "idle"
    /\ resource_profile' = Some(p)
    /\ IF power_mode = ADAPTIVE /\ AdaptiveMode(p) # power_mode
       THEN SetPowerModeSteps(AdaptiveMode(p))
       ELSE UNCHANGED <<power_mode, cacheVars, pools, resize_pc, notifyVars>>
    /\ UNCHANGED <<now, monitor, requested_mode, tasks, stats, threadVars, captureVars, mlVars,
                   detectVars>>

\* _monitor_loop: 'while self.monitoring' found the flag cleared (the thread
\* is not inside a mode change it started)
MonitorExit ==
    /\ monitor.pc = "loop"
    /\ ~monitor.monitoring
    /\ resize_pc = "idle"
    /\ monitor' = [monitor EXCEPT !.pc = "done", !.join_until = 0]
    /\ UNCHANGED <<now, cacheVars, power_mode, resource_profile, requested_mode, resize_pc,
                   notifyVars, poolVars, captureVars, mlVars, detectVars>>

\* _monitor_loop, in a thread started before the one monitor_thread refers
\* to: 'while self.monitoring' found the flag cleared
MonitorExitEarlier ==
    /\ monitor.earlier > 0
    /\ ~monitor.monitoring
    /\ resize_pc = "idle"
    /\ monitor' = [monitor EXCEPT !.earlier = @ - 1]
    /\ UNCHANGED <<now, cacheVars, power_mode, resource_profile, requested_mode, resize_pc,
                   notifyVars, poolVars, captureVars, mlVars, detectVars>>

\* ResourceManager.stop_monitoring(): clears the flag; the join returns when
\* the thread has ended, and gives up after 2 seconds
StopMonitoring ==
    /\ monitor.monitoring
    /\ monitor' = [monitor EXCEPT !.monitoring = FALSE,
                                  !.join_until = IF monitor.pc = "done" THEN 0
                                                 ELSE now + JoinTimeout]
    /\ UNCHANGED <<now, cacheVars, power_mode, resource_profile, requested_mode, resize_pc,
                   notifyVars, poolVars, captureVars, mlVars, detectVars>>

\* ResourceManager.start_monitoring(), called once the stop_monitoring()
\* before it has returned: "if self.monitoring: return", then the flag is set
\* and a new thread is started; a thread of an earlier start that has not
\* yet looked at the flag is still in its loop
StartMonitoring ==
    /\ ~monitor.monitoring
    /\ monitor.pc = "done" \/ now >= monitor.join_until
    /\ monitor.pc = "loop" => monitor.earlier < MaxRestarts
    /\ monitor' = [monitoring |-> TRUE, pc |-> "loop",
                   earlier |-> monitor.earlier + (IF monitor.pc = "loop" THEN 1 ELSE 0),
                   join_until |-> 0]
    /\ UNCHANGED <<now, cacheVars, power_mode, resource_profile, requested_mode, resize_pc,
                   notifyVars, poolVars, captureVars, mlVars, detectVars>>

(***************************************************************************)
(* Actions: ThreadPoolManager.                                             *)
(***************************************************************************)
\* submit_task, "self.stats['tasks_submitted'] += 1": the statement is not
\* atomic and no lock is held; this step reads the counter
SubmitRead(t, kind) ==
    /\ tasks[t].st = "new"
    /\ \A u \in Tasks : u < t => tasks[u].st # "new"   \* tasks are numbered in call order
    /\ tasks' = [tasks EXCEPT ![t] = [st |-> "counting", kind |-> kind, gen |-> 0,
                                      drained |-> FALSE, seen |-> stats.tasks_submitted]]
    /\ UNCHANGED <<now, cacheVars, modeVars, pools, stats, threadVars, captureVars, mlVars,
                   detectVars>>

\* submit_task: the counter is written back, one more than the value read,
\* and the executor reference is read
SubmitPick(t) ==
    /\ tasks[t].st = "counting"
    /\ stats' = [stats EXCEPT !.tasks_submitted = tasks[t].seen + 1]
    /\ tasks' = [tasks EXCEPT ![t].st = "picked", ![t].gen = CurrentGen]
    /\ UNCHANGED <<now, cacheVars, modeVars, pools, threadVars, captureVars, mlVars,
                   detectVars>>

\* submit_task, second half: executor.submit(wrapped_task); an executor that
\* was shut down raises RuntimeError out of submit_task
SubmitEnqueue(t) ==
    /\ tasks[t].st = "picked"
    /\ LET g == tasks[t].gen
           k == tasks[t].kind
       IN IF pools[g].shutdown
          THEN /\ tasks' = [tasks EXCEPT ![t].st = "rejected"]
               /\ UNCHANGED pools
          ELSE /\ tasks' = [tasks EXCEPT ![t].st = "queued"]
               /\ pools' = [pools EXCEPT ![g].work_queue[k] = Append(@, t)]
    /\ UNCHANGED <<now, cacheVars, modeVars, stats, threadVars, captureVars, mlVars,
                   detectVars>>

\* a worker thread of the task's executor takes the task from the work queue
StartTask(t) ==
    /\ tasks[t].st = "queued"
    /\ LET g == tasks[t].gen
           k == tasks[t].kind
       IN /\ Len(pools[g].work_queue[k]) > 0
          /\ Head(pools[g].work_queue[k]) = t
          /\ Cardinality(Running(g, k)) < MaxWorkers(pools[g].mode, k)
          /\ pools' = [pools EXCEPT ![g].work_queue[k] = Tail(@)]
    /\ tasks' = [tasks EXCEPT ![t].st = "running",
                              ![t].drained = pools[tasks[t].gen].shutdown]
    /\ UNCHANGED <<now, cacheVars, modeVars, stats, threadVars, captureVars, mlVars,
                   detectVars>>

\* wrapped(): task.func returns (ok) or raises, and _update_stats starts its
\* unlocked "stats[...] += 1" by reading the counter
FinishTask(t, ok) ==
    /\ tasks[t].st = "running"
    /\ tasks' = [tasks EXCEPT
                    ![t].st = IF ok THEN "completing" ELSE "failing",
                    ![t].seen = IF ok THEN stats.tasks_completed ELSE stats.tasks_failed]
    /\ UNCHANGED <<now, cacheVars, modeVars, pools, stats, threadVars, captureVars, mlVars,
                   detectVars>>

\* _update_stats: the counter is written back, one more than the value read
UpdateStats(t) ==
    /\ tasks[t].st \in {"completing", "failing"}
    /\ tasks' = [tasks EXCEPT ![t].st = IF tasks[t].st = "completing" THEN "completed"
                                                                     ELSE "failed"]
    /\ stats' = IF tasks[t].st = "completing"
                THEN [stats EXCEPT !.tasks_completed = tasks[t].seen + 1]
                ELSE [stats EXCEPT !.tasks_failed = tasks[t].seen + 1]
    /\ UNCHANGED <<now, cacheVars, modeVars, pools, threadVars, captureVars, mlVars,
                   detectVars>>

(***************************************************************************)
(* Actions: OptimizedScreenCapture.                                        *)
(***************************************************************************)
\* capture_screen(region).  grab_ok: self.sct.grab succeeds; h: the hash of
\* the optimized image; change_pixels: the frame difference to previous_frame.
CaptureScreen(region, grab_ok, h, change_pixels) ==
    LET window == now - last_capture_time < Interval(power_mode)
        cached == IF window THEN CacheGetValue(CacheState, "last_screenshot") ELSE None
        st1    == IF window THEN CacheGetState(CacheState, "last_screenshot", now)
                  ELSE CacheState
        img    == Len(frames) + 1
        copy   == Len(frames) + 2
        sh     == [settings |-> CurrentSettings(power_mode), region |-> region]
        sp     == ShouldProcess(h, sh, change_pixels, copy)
    IN IF window /\ cached # None
       THEN \* return cached
            /\ SetCache(st1)
            /\ LogCapture(CaptureRecord(window, FALSE, cached))
            /\ UNCHANGED <<frames, last_capture_time, last_capture_hash, previous_frame>>
       ELSE IF ~grab_ok
       THEN \* except Exception: return None
            /\ SetCache(st1)
            /\ LogCapture(CaptureRecord(window, TRUE, None))
            /\ UNCHANGED <<frames, last_capture_time, last_capture_hash, previous_frame>>
       ELSE IF sp.accept
       THEN /\ Len(frames) + 2 <= MaxFrames
            /\ frames' = frames \o << [hash |-> h, shape |-> sh], [hash |-> h, shape |-> sh] >>
            /\ SetCache(CachePutState(st1, "last_screenshot", img, FrameBytes(sh), now))
            /\ last_capture_time' = now
            /\ last_capture_hash' = sp.last_capture_hash
            /\ previous_frame' = sp.previous_frame
            /\ LogCapture(CaptureRecord(window, TRUE, Some(img)))
       ELSE \* no significant change: return self.previous_frame
            /\ SetCache(st1)
            /\ last_capture_hash' = sp.last_capture_hash
            /\ LogCapture(CaptureRecord(window, TRUE, previous_frame))
            /\ UNCHANGED <<frames, last_capture_time, previous_frame>>

CaptureScreenCall(region, grab_ok, h, change_pixels) ==
    /\ CaptureScreen(region, grab_ok, h, change_pixels)
    /\ UNCHANGED <<now, modeVars, poolVars, regions_call, mlVars, detectVars>>

\* capture_regions(regions): results = [] and the regions sorted by priority
CaptureRegionsBegin(regions) ==
    /\ regions_call.pc # "loop"
    /\ regions_call.calls < MaxRegionCalls
    /\ regions_call' = [pc |-> IF regions = <<>> THEN "done" ELSE "loop",
                        calls |-> regions_call.calls + 1,
                        regions |-> regions, sorted_regions |-> SortedRegions(regions),
                        results |-> <<>>, invoked |-> <<>>, profiles |-> <<>>]
    /\ UNCHANGED <<now, cacheVars, modeVars, poolVars, frames, last_capture_time,
                   last_capture_hash, previous_frame, capture_log, mlVars, detectVars>>

\* capture_regions: one iteration of "for region in sorted_regions", the
\* last one followed by "return results"
CaptureRegionsStep(grab_ok, h, change_pixels) ==
    /\ regions_call.pc = "loop"
    /\ LET k == Len(regions_call.results) + 1
           region == regions_call.regions[regions_call.sorted_regions[k]]
           skip == SkipRegion(resource_profile, region)
           pc == IF k = Len(regions_call.regions) THEN "done" ELSE "loop"
       IN IF skip
          THEN /\ regions_call' =
                     [regions_call EXCEPT !.pc = pc, !.results = Append(@, None),
                                          !.invoked = Append(@, FALSE),
                                          !.profiles = Append(@, resource_profile)]
               /\ UNCHANGED <<cacheVars, frames, last_capture_time, last_capture_hash,
                              previous_frame, capture_log>>
          ELSE /\ CaptureScreen(Some(region.name), grab_ok, h, change_pixels)
               /\ regions_call' =
                     [regions_call EXCEPT !.pc = pc,
                          !.results = Append(@, capture_log'[Len(capture_log')].ret),
                          !.invoked = Append(@, TRUE),
                          !.profiles = Append(@, resource_profile)]
    /\ UNCHANGED <<now, modeVars, poolVars, mlVars, detectVars>>

(***************************************************************************)
(* Actions: MLQuestionDetector / ActiveLearning.                           *)
(***************************************************************************)
\* save_models, reached at the end of a pass that fitted every scorer: it
\* writes one file per scorer and the scaler, so a pass that fails inside it
\* may already have written some of them
WeightsWritten(o) == IF o = "ok" THEN {TRUE} ELSE IF o = "save" THEN BOOLEAN ELSE {FALSE}

\* ActiveLearning.retrain_models: save_training_data() follows the
\* train_models call, so it runs whenever train_models returns (a pass
\* skipped for too few samples included) and not when it raises
SamplesWritten(o) == ~RetrainRaises(o)

\* ActiveLearning.retrain_models over the samples data, the pass ending with
\* outcome o: train_models, then save_training_data
RetrainPass(ll, data, o) ==
    /\ (o = "skipped") <=> (Len(data) < MinTrainingData)
    /\ LET v == train_log.count + 1 IN
       /\ scaler' = TrainScaler(scaler, v, o)
       /\ models' = TrainModels(models, v, o)
       /\ train_log' = [count |-> v, result |-> TrainResult(o), raised |-> RetrainRaises(o),
                        scaler_before |-> scaler, models_before |-> models]
    /\ data_file' = IF SamplesWritten(o) THEN Some(data) ELSE data_file
    /\ \E w \in WeightsWritten(o) :
          learn_log' = [ll EXCEPT !.passes = @ + 1, !.samples = Len(data),
                                         !.result = TrainResult(o),
                                         !.samples_written = SamplesWritten(o),
                                         !.weights_written = w]

\* MLEnhancedDetector.retrain_models(): a pass asked for by the user
RetrainModels(o) ==
    /\ train_log.count < MaxTrains
    /\ RetrainPass(learn_log, training_data, o)
    /\ UNCHANGED <<now, cacheVars, modeVars, poolVars, captureVars, prediction,
                   training_data, detectVars>>

\* ActiveLearning.add_training_sample: the sample is appended, and every
\* min_samples_for_retrain-th length starts a pass
AddTrainingSample(o) ==
    /\ learn_log.adds < MaxSamples
    /\ LET sample == learn_log.adds + 1
           data == Append(training_data, sample)
       IN /\ training_data' = data
          /\ IF Len(data) % min_samples_for_retrain = 0
             THEN /\ learn_log.passes < MaxPasses
                  /\ RetrainPass([learn_log EXCEPT !.adds = sample], data, o)
             ELSE /\ o = "ok"
                  /\ learn_log' = [learn_log EXCEPT !.adds = sample]
                  /\ UNCHANGED <<scaler, models, train_log, data_file>>
    /\ UNCHANGED <<now, cacheVars, modeVars, poolVars, captureVars, prediction, detectVars>>

\* ActiveLearning.__init__ / load_training_data: the list starts empty and is
\* replaced by the content of the data file when that exists
LoadTrainingData ==
    /\ learn_log.loads < MaxLoads
    /\ training_data' = IF data_file = None THEN <<>> ELSE The(data_file)
    /\ learn_log' = [learn_log EXCEPT !.loads = @ + 1]
    /\ UNCHANGED <<now, cacheVars, modeVars, poolVars, captureVars, scaler, models, train_log,
                   prediction, data_file, detectVars>>

\* ml_detector.predict(text, region, image), sc[m] being the probability
\* scorer m returns for the input
PredictCall(sc) ==
    /\ prediction' = Predict(models, sc)
    /\ UNCHANGED <<now, cacheVars, modeVars, poolVars, captureVars, scaler, models,
                   train_log, learnVars, detectVars>>

(***************************************************************************)
(* Actions: detection.                                                     *)
(***************************************************************************)
\* what OptimizedQuestionDetector.detect(screenshot) does for scene sc when
\* the strategies in fails raise: the fields after, and what it returns
BaseDetect(sc, fails) ==
    IF CheckCacheHit(detection_cache, sc, now)
    THEN [cached |-> TRUE, calls |-> <<>>, outcomes |-> <<>>, error |-> FALSE,
          result |-> Some(detection_cache[sc].detection),
          detections |-> detections, detection_cache |-> detection_cache,
          detection_history |-> detection_history, metrics |-> metrics]
    ELSE LET dc0  == CheckCacheState(detection_cache, sc, now)
             loop == StrategyLoop(strategies, 1, sc, now, fails, NoCalls)
             id   == Len(detections) + 1
         IN IF loop.detection = None
            THEN [cached |-> FALSE, calls |-> loop.calls, outcomes |-> loop.outcomes,
                  error |-> loop.error, result |-> None,
                  detections |-> detections, detection_cache |-> dc0,
                  detection_history |-> detection_history, metrics |-> metrics]
            ELSE [cached |-> FALSE, calls |-> loop.calls, outcomes |-> loop.outcomes,
                  error |-> FALSE, result |-> Some(id),
                  detections |-> Append(detections, The(loop.detection)),
                  detection_cache |-> UpdateCache(dc0, sc, id, now),
                  detection_history |-> AddToHistory(detection_history, id),
                  metrics |-> [total_detections |-> metrics.total_detections + 1,
                               successful_detections |-> metrics.successful_detections + 1]]

\* MLEnhancedDetector.detect(screenshot): the base detect, then the blend
\* with the ensemble, written into the Detection object the base returned
DetectSteps(sc, fails) ==
    /\ detect_log.n < MaxDetectCalls
    /\ LET base == BaseDetect(sc, fails)
           blend == /\ ml_enabled
                    /\ base.result # None
                    /\ "ml" \notin fails
                    /\ sc.question_text # <<>>
                    /\ sc.region
           id == The(base.result)
           combined == CombinedConfidence(base.detections[id].confidence,
                                          Pct(sc.ml_confidence))
       IN /\ Len(base.detections) <= MaxDetections
          /\ detections' = IF blend
                           THEN [base.detections EXCEPT
                                    ![id].confidence = combined,
                                    ![id].detection_method = Append(@, "+ML")]
                           ELSE base.detections
          /\ pending_feedback' = IF blend /\ should_request_label(combined)
                                 THEN QueueForFeedback(pending_feedback, id)
                                 ELSE pending_feedback
          /\ detection_cache' = base.detection_cache
          /\ detection_history' = base.detection_history
          /\ metrics' = base.metrics
          /\ detect_log' = [n |-> detect_log.n + 1, cached |-> base.cached,
                            calls |-> base.calls, outcomes |-> base.outcomes,
                            result |-> base.result, blended |-> blend,
                            raised |-> detect_log.raised \/ fails # {},
                            error |-> base.error,
                            text_question |-> TextQuestion(sc),
                            ml_question |-> MlQuestion(sc)]
    /\ UNCHANGED <<now, cacheVars, modeVars, poolVars, captureVars, mlVars, ml_enabled, dup_call,
                   svcVars>>

\* a detect() call
Detect(sc, fails) ==
    /\ DetectSteps(sc, fails)
    /\ UNCHANGED detect_input

\* a detect() call whose frame and failing strategies are kept for comparison
DetectRecorded(sc, fails) ==
    /\ DetectSteps(sc, fails)
    /\ detect_input' = [n |-> detect_log.n + 1, scene |-> Some(sc), fails |-> fails,
                        time |-> now]

\* is_duplicate(detection) for a Detection just built with the given text
\* (Detection.__post_init__: timestamp = time.time())
IsDuplicate(text) ==
    /\ dup_call' = [text |-> text, timestamp |-> now,
                    last |-> IF Len(detection_history) = 0 THEN None
                             ELSE Some(detection_history[Len(detection_history)]),
                    result |-> is_duplicate(detection_history, detections, text, now)]
    /\ UNCHANGED <<now, cacheVars, modeVars, poolVars, captureVars, mlVars, ml_enabled,
                   detections, detection_cache, detection_history, metrics,
                   pending_feedback, detect_log, detect_input, svcVars>>

(***************************************************************************)
(* ServiceManager: start, stop, pause, resume and the polling loop.        *)
(***************************************************************************)
\* self.max_errors
max_errors == 3

\* config 'num_questions'
max_questions == 1

\* config 'duration_minutes', in clock steps
SessionTime == 2

\* calls of start() and iterations of the polling loop that are explored
MaxStarts == 2
MaxIterations == 4

ServiceThreads == 1..MaxStarts

\* where an iteration raises: nowhere, in detect() (DetectionError), or in
\* the tracking, research and answering that follow a new detection
RaiseSites == {"none", "detect", "answer"}

\* the branch one iteration of _main_loop takes: frame is the scene that
\* capture_screen() returned (None when it failed), base the outcome of
\* detect() on it
IterationPath(th, frame, base, raises, answered) ==
    IF service.paused THEN "paused"
    ELSE IF now >= service.end_time THEN "time_limit"
    ELSE IF main_threads[th].questions_answered >= max_questions THEN "question_limit"
    ELSE IF frame = None THEN "no_capture"
    ELSE IF raises = "detect" THEN "error"
    ELSE IF base.result = None THEN "no_detection"
    ELSE IF is_duplicate(base.detection_history, base.detections,
                         base.detections[The(base.result)].question_text,
                         base.detections[The(base.result)].timestamp)
         THEN "duplicate"
    ELSE IF raises = "answer" THEN "error"
    ELSE IF answered THEN "answered"
    ELSE "no_answer"

\* the branches that end an iteration without an exception and without
\* leaving the loop
CompletedPaths == {"paused", "no_capture", "no_detection", "duplicate", "answered", "no_answer"}

\* the branches that reach 'self.error_count = 0' at the end of the try block
ResetPaths == {"no_detection", "duplicate", "answered", "no_answer"}

\* the branches in which detect() returned
DetectPaths == {"no_detection", "duplicate", "answered", "no_answer"}

\* _handle_error(e): self.error_count += 1
HandleError(svc) == [svc EXCEPT !.error_count = @ + 1]

\* ServiceManager.start()
ServiceStart ==
    /\ ~service.running
    /\ Len(main_threads) < MaxStarts
    /\ service' = [service EXCEPT !.running = TRUE, !.end_time = now + SessionTime]
    /\ main_threads' = Append(main_threads, [pc |-> "loop", questions_answered |-> 0,
                                              exit |-> "none"])
    /\ svc_log' = [svc_log EXCEPT !.stopped = FALSE]
    /\ UNCHANGED <<now, cacheVars, modeVars, poolVars, captureVars, mlVars, ml_enabled, utilVars,
                   detections, detection_cache, detection_history, metrics,
                   pending_feedback, detect_log, detect_input, dup_call>>

\* ServiceManager.stop(): clears the flag, waits up to 5 s for the main
\* thread and returns
ServiceStop ==
    /\ service.running
    /\ service' = [service EXCEPT !.running = FALSE]
    /\ svc_log' = [svc_log EXCEPT !.stopped = TRUE]
    /\ UNCHANGED <<now, cacheVars, modeVars, poolVars, captureVars, mlVars, ml_enabled, utilVars,
                   detections, detection_cache, detection_history, metrics,
                   pending_feedback, detect_log, detect_input, dup_call, main_threads>>

\* ServiceManager.pause() / resume()
ServicePause(paused) ==
    /\ service.paused # paused
    /\ service' = [service EXCEPT !.paused = paused]
    /\ UNCHANGED <<now, cacheVars, modeVars, poolVars, captureVars, mlVars, ml_enabled, utilVars,
                   detections, detection_cache, detection_history, metrics,
                   pending_feedback, detect_log, detect_input, dup_call, main_threads,
                   svc_log>>

\* one iteration of 'while self.running' in _main_loop, run by thread th
MainLoopIteration(th, frame, raises, answered) ==
    /\ th \in 1..Len(main_threads)
    /\ main_threads[th].pc = "loop"
    /\ service.running
    /\ svc_log.iterations < MaxIterations
    /\ \E path \in {IterationPath(th, frame, BaseDetect(The(frame), {}), raises, answered)} :
       LET base == BaseDetect(The(frame), {})
           detected == path \in DetectPaths \/ (path = "error" /\ raises = "answer")
           svc1 == IF path = "error" THEN HandleError(service)
                   ELSE IF path \in ResetPaths THEN [service EXCEPT !.error_count = 0]
                   ELSE service
           exit == IF path \in {"time_limit", "question_limit"} THEN path
                   ELSE IF path = "error" /\ svc1.error_count >= max_errors THEN "errors"
                   ELSE "none"
           streak == IF path = "error" THEN svc_log.streak + 1
                     ELSE IF path \in CompletedPaths THEN 0
                     ELSE svc_log.streak
       IN /\ detected => Len(base.detections) <= MaxIterations
          /\ service' = svc1
          /\ main_threads' = [main_threads EXCEPT
                                 ![th].pc = IF exit = "none" THEN "loop" ELSE "done",
                                 ![th].exit = exit,
                                 ![th].questions_answered =
                                     IF path = "answered" THEN @ + 1 ELSE @]
          /\ detections' = IF detected THEN base.detections ELSE detections
          /\ detection_cache' = IF detected THEN base.detection_cache ELSE detection_cache
          /\ detection_history' = IF detected THEN base.detection_history
                                  ELSE detection_history
          /\ metrics' = IF detected THEN base.metrics ELSE metrics
          /\ svc_log' = [svc_log EXCEPT
                            !.iterations = @ + 1,
                            !.path = path,
                            !.streak = streak,
                            !.poll = IF detected /\ base.result # None
                                     THEN Some([detection |-> The(base.result),
                                                cached |-> base.cached,
                                                previous |-> IF The(base.result) = 1 THEN None
                                                             ELSE Some(The(base.result) - 1),
                                                compared_with |->
                                                    base.detection_history[Len(base.detection_history)],
                                                duplicate |-> path = "duplicate"])
                                     ELSE None]
    /\ UNCHANGED <<now, cacheVars, modeVars, poolVars, captureVars, mlVars, ml_enabled, utilVars,
                   pending_feedback, detect_log, detect_input, dup_call>>

\* 'while self.running' read as false: _main_loop returns
MainLoopExit(th) ==
    /\ th \in 1..Len(main_threads)
    /\ main_threads[th].pc = "loop"
    /\ ~service.running
    /\ main_threads' = [main_threads EXCEPT ![th].pc = "done", ![th].exit = "stopped"]
    /\ UNCHANGED <<now, cacheVars, modeVars, poolVars, captureVars, mlVars, ml_enabled, utilVars,
                   detections, detection_cache, detection_history, metrics,
                   pending_feedback, detect_log, detect_input, dup_call, service, svc_log>>

(***************************************************************************)
(* Config: values, get, set, update, save and load.                        *)
(***************************************************************************)
\* Python values held in a configuration: numbers, dicts with string keys,
\* one-element tuples and lists, and None.  Fractions are in hundredths.
NoneV == [kind |-> "none", v |-> 0, items |-> EmptyDict]
IntV(n) == [kind |-> "int", v |-> n, items |-> EmptyDict]
TupleV(n) == [kind |-> "tuple", v |-> n, items |-> EmptyDict]
ListV(n) == [kind |-> "list", v |-> n, items |-> EmptyDict]
DictV(f) == [kind |-> "dict", v |-> 0, items |-> f]

\* the DEFAULT_CONFIG literal of the class body: the four validated keys
\* and one nested section
DEFAULT_CONFIG ==
    DictV([k \in {"monitoring_interval", "duration_minutes", "num_questions",
                  "confidence_threshold", "detection"} |->
             CASE k = "monitoring_interval" -> IntV(5)
               [] k = "duration_minutes" -> IntV(60)
               [] k = "num_questions" -> IntV(10)
               [] k = "confidence_threshold" -> IntV(50)
               [] k = "detection" -> DictV([s \in {"min_question_length"} |-> IntV(10)])])

\* json.dump followed by json.load: a tuple comes back as a list
RECURSIVE JsonRoundTrip(_)
JsonRoundTrip(value) ==
    IF value.kind = "tuple" THEN ListV(value.v)
    ELSE IF value.kind = "dict"
         THEN DictV([k \in DOMAIN value.items |-> JsonRoundTrip(value.items[k])])
         ELSE value

\* Config.get(key) with key.split('.') = keys, default None
RECURSIVE ConfigGet(_, _)
ConfigGet(value, keys) ==
    IF keys = <<>> THEN value
    ELSE IF value.kind = "dict"
         THEN IF Head(keys) \in DOMAIN value.items /\ value.items[Head(keys)] # NoneV
              THEN ConfigGet(value.items[Head(keys)], Tail(keys))
              ELSE NoneV
         ELSE NoneV

\* the assignment of Config.set(key, value) with key.split('.') = keys:
\* the dict after, or raised when a key on the way holds a number
RECURSIVE ConfigAssign(_, _, _)
ConfigAssign(target, keys, value) ==
    IF target.kind # "dict" THEN [raised |-> TRUE, value |-> target]
    ELSE IF Len(keys) = 1
         THEN [raised |-> FALSE, value |-> DictV(DictSet(target.items, Head(keys), value))]
         ELSE LET child == IF Head(keys) \in DOMAIN target.items
                           THEN target.items[Head(keys)]
                           ELSE DictV(EmptyDict)
                  r == ConfigAssign(child, Tail(keys), value)
              IN [raised |-> r.raised,
                  value |-> IF r.raised THEN target
                            ELSE DictV(DictSet(target.items, Head(keys), r.value))]

\* Config._merge_configs(default, user)
RECURSIVE MergeConfigs(_, _)
MergeConfigs(default, user) ==
    DictV([key \in DOMAIN default.items \cup DOMAIN user.items |->
             IF key \notin DOMAIN user.items THEN default.items[key]
             ELSE IF /\ key \in DOMAIN default.items
                     /\ default.items[key].kind = "dict"
                     /\ user.items[key].kind = "dict"
                  THEN MergeConfigs(default.items[key], user.items[key])
                  ELSE user.items[key]])

\* _validate_config with the upper limit of duration_minutes excluded
validate_config_exclusive(cfg) ==
    \/ cfg.items["monitoring_interval"].v < 1
    \/ cfg.items["duration_minutes"].v < 1 \/ cfg.items["duration_minutes"].v >= 600
    \/ cfg.items["num_questions"].v < 1 \/ cfg.items["num_questions"].v > 1000
    \/ cfg.items["confidence_threshold"].v < 0 \/ cfg.items["confidence_threshold"].v > 100

\* Config._validate_config(): TRUE when it raises ConfigurationError
validate_config(cfg) ==
    \/ cfg.items["monitoring_interval"].v < 1
    \/ cfg.items["duration_minutes"].v < 1 \/ cfg.items["duration_minutes"].v > 600
    \/ cfg.items["num_questions"].v < 1 \/ cfg.items["num_questions"].v > 1000
    \/ cfg.items["confidence_threshold"].v < 0 \/ cfg.items["confidence_threshold"].v > 100

\* Config(config_path).load() on an existing file: what the new object holds,
\* or raised (ConfigurationError)
LoadConfig(file) ==
    LET merged == MergeConfigs(class_config.default, file)
    IN [raised |-> validate_config(merged), config |-> merged]

\* the keys that set and get are called with, and the values set
ValidatedKeys == {"monitoring_interval", "duration_minutes", "num_questions",
                  "confidence_threshold"}
ConfigPaths ==
    {<<k>> : k \in ValidatedKeys} \cup
    {<<"detection">>, <<"detection", "min_question_length">>, <<"custom", "x">>,
     <<"num_questions", "x">>}

ValuesFor(keys) ==
    IF keys = <<"monitoring_interval">> THEN {IntV(0), IntV(1)}
    ELSE IF keys = <<"duration_minutes">> THEN {IntV(0), IntV(1), IntV(600), IntV(601)}
    ELSE IF keys = <<"num_questions">> THEN {IntV(0), IntV(1), IntV(1000), IntV(1001)}
    ELSE IF keys = <<"confidence_threshold">> THEN {IntV(0 - 1), IntV(0), IntV(100), IntV(101)}
    ELSE IF keys = <<"detection">> THEN {IntV(7)}
    ELSE {IntV(7), TupleV(7)}

\* Config operations that are explored
MaxConfigOps == 3

\* Config.__init__: self.config = self.DEFAULT_CONFIG.copy().  dict.copy()
\* makes a new dict whose values are the same objects, so the sections
\* (values that are dicts) of d are shared between d and the copy
Sections(d) == {k \in DOMAIN d.items : d.items[k].kind = "dict"}

\* the class attribute after Config.set(keys, value) on a config whose
\* sections in shared are the class attribute's own dict objects
SetThroughAlias(default, shared, keys, value) ==
    IF Len(keys) >= 2 /\ Head(keys) \in shared
    THEN ConfigAssign(default, keys, value).value
    ELSE default

\* Config.set(key, value): the assignment, then save()
ConfigSet(keys, value) ==
    /\ config_log.ops < MaxConfigOps
    /\ LET r == ConfigAssign(config, keys, value)
       IN /\ config' = r.value
          /\ class_config' =
                [default |-> SetThroughAlias(class_config.default, class_config.shared,
                                             keys, value),
                 shared |-> IF Len(keys) = 1 THEN class_config.shared \ {Head(keys)}
                            ELSE class_config.shared]
          /\ config_file' = IF r.raised THEN config_file ELSE JsonRoundTrip(r.value)
          /\ config_log' = [ops |-> config_log.ops + 1, op |-> "set", keys |-> keys,
                            value |-> value, raised |-> r.raised,
                            config_before |-> config, validated |-> None]
    /\ UNCHANGED <<now, cacheVars, modeVars, poolVars, captureVars, mlVars, ml_enabled,
                   detections, detection_cache, detection_history, metrics,
                   pending_feedback, detect_log, detect_input, dup_call,
                   service, main_threads, svc_log, rateVars>>

\* Config.update(updates): merge, validate, save
ConfigUpdate(updates) ==
    /\ config_log.ops < MaxConfigOps
    /\ LET merged == MergeConfigs(config, updates)
           raised == validate_config(merged)
       IN /\ config' = merged
          /\ class_config' = [class_config EXCEPT !.shared = @ \ DOMAIN updates.items]
          /\ config_file' = IF raised THEN config_file ELSE JsonRoundTrip(merged)
          /\ config_log' = [ops |-> config_log.ops + 1, op |-> "update", keys |-> <<>>,
                            value |-> updates, raised |-> raised,
                            config_before |-> config, validated |-> Some(merged)]
    /\ UNCHANGED <<now, cacheVars, modeVars, poolVars, captureVars, mlVars, ml_enabled,
                   detections, detection_cache, detection_history, metrics,
                   pending_feedback, detect_log, detect_input, dup_call,
                   service, main_threads, svc_log, rateVars>>

\* a direct call of Config._validate_config()
ConfigValidate ==
    /\ config_log.ops < MaxConfigOps
    /\ config_log' = [ops |-> config_log.ops + 1, op |-> "validate", keys |-> <<>>,
                      value |-> NoneV, raised |-> validate_config(config),
                      config_before |-> config, validated |-> Some(config)]
    /\ UNCHANGED <<now, cacheVars, modeVars, poolVars, captureVars, mlVars, ml_enabled,
                   detections, detection_cache, detection_history, metrics,
                   pending_feedback, detect_log, detect_input, dup_call,
                   service, main_threads, svc_log, rateVars, config, config_file,
                   class_config>>

\* Config(config_path) constructed again: load() of the existing file
ConfigLoad ==
    /\ config_log.ops < MaxConfigOps
    /\ LET r == LoadConfig(config_file)
       IN config_log' = [ops |-> config_log.ops + 1, op |-> "load", keys |-> <<>>,
                         value |-> NoneV, raised |-> r.raised,
                         config_before |-> config, validated |-> Some(r.config)]
    /\ UNCHANGED <<now, cacheVars, modeVars, poolVars, captureVars, mlVars, ml_enabled,
                   detections, detection_cache, detection_history, metrics,
                   pending_feedback, detect_log, detect_input, dup_call,
                   service, main_threads, svc_log, rateVars, config, config_file,
                   class_config>>

\* Config(path) constructed for a path where no file exists: the new object
\* holds a copy of the class attribute (and writes it to its own file)
ConfigNew ==
    /\ config_log.ops < MaxConfigOps
    /\ config_log' = [ops |-> config_log.ops + 1, op |-> "new", keys |-> <<>>,
                      value |-> NoneV, raised |-> FALSE,
                      config_before |-> config, validated |-> Some(class_config.default)]
    /\ UNCHANGED <<now, cacheVars, modeVars, poolVars, captureVars, mlVars, ml_enabled,
                   detections, detection_cache, detection_history, metrics,
                   pending_feedback, detect_log, detect_input, dup_call,
                   service, main_threads, svc_log, rateVars, config, config_file,
                   class_config>>

(***************************************************************************)
(* RateLimiter.                                                            *)
(***************************************************************************)
RateOps == {"op1", "op2"}
RateAttempts == {1, 2}
RateWindows == {1, 2}

\* check_limit and set_limit calls that are explored
MaxChecks == 4
MaxSetLimits == 2

\* 'Clean old attempts': the attempts younger than the window at time t
CleanAttempts(ts, t, window) == SelectSeq(ts, LAMBDA x : t - x < window)

\* check_limit that records the denied attempts too
check_limit_recording(lim, att, operation, t) ==
    IF operation \notin DOMAIN lim
    THEN [result |-> TRUE, attempts |-> att]
    ELSE LET cleaned == CleanAttempts(att[operation], t, lim[operation].window)
         IN [result |-> ~(Len(cleaned) >= lim[operation].max_attempts),
             attempts |-> [att EXCEPT ![operation] = Append(cleaned, t)]]

\* check_limit(operation) at time t on limits lim and attempts att: what it
\* returns and self.attempts after
check_limit(lim, att, operation, t) ==
    IF operation \notin DOMAIN lim
    THEN [result |-> TRUE, attempts |-> att]
    ELSE LET cleaned == CleanAttempts(att[operation], t, lim[operation].window)
         IN IF Len(cleaned) >= lim[operation].max_attempts
            THEN [result |-> FALSE, attempts |-> [att EXCEPT ![operation] = cleaned]]
            ELSE [result |-> TRUE,
                  attempts |-> [att EXCEPT ![operation] = Append(cleaned, t)]]

\* RateLimiter.set_limit(operation, max_attempts, window_seconds)
SetLimit(operation, max_attempts, window_seconds) ==
    /\ rate_log.set_limits < MaxSetLimits
    /\ limits' = DictSet(limits, operation,
                         [max_attempts |-> max_attempts, window |-> window_seconds])
    /\ attempts' = IF operation \in DOMAIN attempts THEN attempts
                   ELSE DictSet(attempts, operation, <<>>)
    /\ rate_log' = [rate_log EXCEPT
                       !.set_limits = @ + 1,
                       !.configured[operation] = @ + 1]
    /\ UNCHANGED <<now, cacheVars, modeVars, poolVars, captureVars, mlVars, ml_enabled,
                   detections, detection_cache, detection_history, metrics,
                   pending_feedback, detect_log, detect_input, dup_call,
                   service, main_threads, svc_log, configVars>>

\* RateLimiter.check_limit(operation)
CheckLimit(operation) ==
    /\ rate_log.checks < MaxChecks
    /\ LET r == check_limit(limits, attempts, operation, now)
       IN /\ attempts' = r.attempts
          /\ rate_log' = [rate_log EXCEPT
                             !.checks = @ + 1,
                             !.granted[operation] =
                                 IF r.result /\ operation \in DOMAIN limits
                                 THEN Append(@, now) ELSE @,
                             !.denied[operation] = IF r.result THEN @ ELSE @ + 1,
                             !.last = Some([operation |-> operation, time |-> now,
                                            result |-> r.result,
                                            limited |-> operation \in DOMAIN limits,
                                            granted_before |-> rate_log.granted[operation],
                                            attempts_before |-> attempts])]
    /\ UNCHANGED <<now, cacheVars, modeVars, poolVars, captureVars, mlVars, ml_enabled,
                   detections, detection_cache, detection_history, metrics,
                   pending_feedback, detect_log, detect_input, dup_call,
                   service, main_threads, svc_log, limits, configVars>>

(***************************************************************************)
(* TaskScheduler: delayed and recurring tasks.                             *)
(***************************************************************************)
\* ThreadPriority: the value of a task's priority is the first component of
\* its queue entry
ThreadPriority == [REALTIME |-> 0, HIGH |-> 1, NORMAL |-> 2, LOW |-> 3, IDLE |-> 4]
SchedPriorities == {ThreadPriority.HIGH, ThreadPriority.NORMAL}
SchedDelays == {0, 1, 2}
SchedIntervals == {1, 2}
SchedTaskIds == 1..MaxSchedCalls

\* the tuple (priority, scheduled_time, task) put on the queue.  id names the
\* task the caller passed; recurring tells whether the entry's task is the
\* recurring_wrapper task built around it (interval is the wrapper's closure
\* variable); seq numbers the puts, standing for the sub-second part of
\* time.time() that makes two entries distinct
SchedEntry(priority, scheduled_time, seq, id, recurring, interval) ==
    [priority |-> priority, scheduled_time |-> scheduled_time, seq |-> seq,
     id |-> id, recurring |-> recurring, interval |-> interval]

\* tuple comparison of two queue entries: priority first, then scheduled_time
EntryLess(a, b) ==
    \/ a.priority < b.priority
    \/ a.priority = b.priority /\ a.scheduled_time < b.scheduled_time

\* the entries PriorityQueue.get may return: the smallest tuples (entries
\* that agree on priority and on the whole second come out in either order)
QueueHeads(q) == {e \in q : \A f \in q : ~EntryLess(f, e)}

\* schedule_task(task, delay): put (task.priority.value, now + delay, task)
SchedulePut(q, priority, delay, seq, id, recurring, interval, t) ==
    q \cup {SchedEntry(priority, t + delay, seq, id, recurring, interval)}

\* thread_pool.submit_task(task) called by the loop: the task is counted, and
\* executor.submit queues it, or raises RuntimeError when the executor was
\* shut down by a resize in progress (the loop logs the error and goes on)
SubmitScheduled(e) ==
    /\ Len(sched_log.dispatched) < MaxDispatch
    /\ stats' = [stats EXCEPT !.tasks_submitted = @ + 1]
    /\ IF pools[CurrentGen].shutdown
       THEN /\ UNCHANGED sched_submitted
            /\ sched_log' = [sched_log EXCEPT !.rejected = @ \cup {e.seq}]
       ELSE /\ sched_submitted' = sched_submitted \cup {e}
            /\ sched_log' = [sched_log EXCEPT !.dispatched = Append(@, e)]

\* a caller: task_scheduler.schedule_task(task, delay)
ScheduleTask(priority, delay) ==
    /\ sched_log.calls < MaxSchedCalls
    /\ scheduled_tasks' = SchedulePut(scheduled_tasks, priority, delay, sched_log.seq + 1,
                                      sched_log.calls + 1, FALSE, 0, now)
    /\ sched_log' = [sched_log EXCEPT !.calls = @ + 1, !.seq = @ + 1]
    /\ UNCHANGED <<now, lfuVars, cacheVars, modeVars, pools, tasks, stats, sched_running, sched_loop,
                   sched_submitted, captureVars, mlVars, detectVars>>

\* a caller: task_scheduler.schedule_recurring(task, interval): the wrapper
\* task is scheduled with delay 0
ScheduleRecurring(priority, interval) ==
    /\ sched_log.calls < MaxSchedCalls
    /\ scheduled_tasks' = SchedulePut(scheduled_tasks, priority, 0, sched_log.seq + 1,
                                      sched_log.calls + 1, TRUE, interval, now)
    /\ sched_log' = [sched_log EXCEPT !.calls = @ + 1, !.seq = @ + 1,
                                      !.recurring = @ \cup {sched_log.calls + 1}]
    /\ UNCHANGED <<now, lfuVars, cacheVars, modeVars, pools, tasks, stats, sched_running, sched_loop,
                   sched_submitted, captureVars, mlVars, detectVars>>

\* _scheduler_loop: scheduled_tasks.get returned entry e; a task whose time
\* has come is submitted, otherwise the loop sleeps min(wait_time, 1)
SchedGet(e) ==
    /\ sched_loop.pc = "get"
    /\ sched_running
    /\ e \in QueueHeads(scheduled_tasks)
    /\ Len(sched_log.dispatched) < MaxDispatch
    /\ IF e.scheduled_time - now > 0
       THEN /\ now + Min(e.scheduled_time - now, 1) <= MaxInterval + TimeSteps
            /\ sched_loop' = [sched_loop EXCEPT !.pc = "sleep", !.held = Some(e),
                                 !.wake_at = now + Min(e.scheduled_time - now, 1)]
            /\ scheduled_tasks' = scheduled_tasks \ {e}
            /\ UNCHANGED <<stats, sched_submitted, sched_log>>
       ELSE /\ SubmitScheduled(e)
            /\ scheduled_tasks' = scheduled_tasks \ {e}
            /\ UNCHANGED sched_loop
    /\ UNCHANGED <<now, lfuVars, cacheVars, modeVars, pools, tasks, sched_running,
                   captureVars, mlVars, detectVars>>

\* _scheduler_loop after time.sleep, submitting the entry without the
\* second look at the clock
SchedWakeUnchecked ==
    /\ sched_loop.pc = "sleep"
    /\ now >= sched_loop.wake_at
    /\ SubmitScheduled(The(sched_loop.held))
    /\ sched_loop' = [sched_loop EXCEPT !.pc = "get", !.held = None, !.wake_at = 0]
    /\ UNCHANGED <<now, lfuVars, cacheVars, modeVars, pools, tasks, sched_running,
                   scheduled_tasks, captureVars, mlVars, detectVars>>

\* _scheduler_loop after time.sleep: an entry still not due is put back and
\* the loop continues, a due entry is submitted
SchedWake ==
    /\ sched_loop.pc = "sleep"
    /\ now >= sched_loop.wake_at
    /\ LET e == The(sched_loop.held)
       IN IF e.scheduled_time > now
          THEN /\ scheduled_tasks' = scheduled_tasks \cup {e}
               /\ sched_log' = [sched_log EXCEPT !.requeued = @ \cup {e.seq}]
               /\ UNCHANGED <<stats, sched_submitted>>
          ELSE /\ SubmitScheduled(e)
               /\ UNCHANGED scheduled_tasks
    /\ sched_loop' = [sched_loop EXCEPT !.pc = "get", !.held = None, !.wake_at = 0]
    /\ UNCHANGED <<now, lfuVars, cacheVars, modeVars, pools, tasks, sched_running,
                   captureVars, mlVars, detectVars>>

\* a loop that looks at the flag only when the queue is empty
SchedExitWhenIdle ==
    /\ sched_loop.pc = "get"
    /\ ~sched_running
    /\ scheduled_tasks = {}
    /\ sched_loop' = [sched_loop EXCEPT !.pc = "done"]
    /\ sched_log' = [sched_log EXCEPT !.join_until = 0]
    /\ UNCHANGED <<now, lfuVars, cacheVars, modeVars, pools, tasks, stats, scheduled_tasks,
                   sched_running, sched_submitted, captureVars, mlVars, detectVars>>

\* _scheduler_loop: 'while self.running' found the flag cleared; a join
\* waiting for the thread returns
SchedExit ==
    /\ sched_loop.pc = "get"
    /\ ~sched_running
    /\ sched_loop' = [sched_loop EXCEPT !.pc = "done"]
    /\ sched_log' = [sched_log EXCEPT !.join_until = 0]
    /\ UNCHANGED <<now, lfuVars, cacheVars, modeVars, pools, tasks, stats, scheduled_tasks,
                   sched_running, sched_submitted, captureVars, mlVars, detectVars>>

\* task_scheduler.stop(): clears the flag; the join returns when the thread
\* has ended, and gives up after 2 seconds
SchedStop ==
    /\ sched_running
    /\ sched_running' = FALSE
    /\ sched_log' = [sched_log EXCEPT !.join_until = IF sched_loop.pc = "done" THEN 0
                                                      ELSE now + JoinTimeout]
    /\ UNCHANGED <<now, lfuVars, cacheVars, modeVars, pools, tasks, stats, scheduled_tasks,
                   sched_loop, sched_submitted, captureVars, mlVars, detectVars>>

\* the locals of one thread in _scheduler_loop
LoopLocals(l) == [pc |-> l.pc, held |-> l.held, wake_at |-> l.wake_at]

\* task_scheduler.start(), called once the stop() before it has returned:
\* "if self.running: return", then the flag is set and a new thread enters
\* _scheduler_loop; scheduler_thread no longer refers to the thread of the
\* earlier start, which is still in its loop if it has not yet looked at
\* the flag
SchedStart ==
    /\ ~sched_running
    /\ sched_loop.pc = "done" \/ now >= sched_log.join_until
    /\ sched_loop.pc # "done" => Len(sched_loop.earlier) < MaxRestarts
    /\ sched_running' = TRUE
    /\ sched_loop' = [pc |-> "get", held |-> None, wake_at |-> 0,
                      earlier |-> IF sched_loop.pc = "done" THEN sched_loop.earlier
                                  ELSE Append(sched_loop.earlier, LoopLocals(sched_loop))]
    /\ sched_log' = [sched_log EXCEPT !.join_until = 0]
    /\ UNCHANGED <<now, lfuVars, cacheVars, modeVars, pools, tasks, stats, scheduled_tasks,
                   sched_submitted, captureVars, mlVars, detectVars>>

\* the processor turns to the i-th thread of an earlier start: sched_loop
\* holds the locals of the loop thread that takes the next step
SchedRunEarlier(i) ==
    /\ i \in 1..Len(sched_loop.earlier)
    /\ sched_loop' = [pc |-> sched_loop.earlier[i].pc, held |-> sched_loop.earlier[i].held,
                      wake_at |-> sched_loop.earlier[i].wake_at,
                      earlier |-> [sched_loop.earlier EXCEPT ![i] = LoopLocals(sched_loop)]]
    /\ UNCHANGED <<now, lfuVars, cacheVars, modeVars, pools, tasks, stats, scheduled_tasks,
                   sched_running, sched_submitted, sched_log, captureVars, mlVars, detectVars>>

\* the task recurring_wrapper passes to schedule_task after a run
WrapperReschedules(e) == [id |-> e.id, recurring |-> FALSE, interval |-> 0]

\* a worker runs the wrapped function of a submitted entry: task.func returns
\* (ok) or raises.  recurring_wrapper calls the caller's function and, when it
\* returned and the scheduler is running, schedule_task(task, interval)
RunScheduled(e, ok) ==
    /\ e \in sched_submitted
    /\ sched_submitted' = sched_submitted \ {e}
    /\ stats' = IF ok THEN [stats EXCEPT !.tasks_completed = @ + 1]
                       ELSE [stats EXCEPT !.tasks_failed = @ + 1]
    /\ IF e.recurring /\ ok /\ sched_running
       THEN LET r == WrapperReschedules(e)
            IN /\ scheduled_tasks' = SchedulePut(scheduled_tasks, e.priority, e.interval,
                                                 sched_log.seq + 1, r.id, r.recurring,
                                                 r.interval, now)
               /\ sched_log' = [sched_log EXCEPT !.seq = @ + 1,
                                                 !.runs[e.id] = @ + 1]
       ELSE /\ UNCHANGED scheduled_tasks
            /\ sched_log' = [sched_log EXCEPT
                                !.runs[e.id] = @ + 1,
                                !.raised = IF ok THEN @ ELSE @ \cup {e.id}]
    /\ UNCHANGED <<now, lfuVars, cacheVars, modeVars, pools, tasks, sched_running, sched_loop,
                   captureVars, mlVars, detectVars>>

(***************************************************************************)
(* ThreadSafeCache: entry-count-bounded cache evicting by access count.    *)
(***************************************************************************)
ThreadCacheKeys == {"a", "b", "c"}

\* an eviction that takes the first key in dict order whatever its count
OldestKey(tc) == tc.cache[1]

\* min(self.access_count.keys(), key=lambda k: self.access_count[k]): the
\* first key, in dict order, whose access count is minimal
LfuKey(tc) ==
    LET idx == CHOOSE i \in 1..Len(tc.cache) :
                 /\ \A j \in 1..Len(tc.cache) :
                       tc.access_count[tc.cache[i]] <= tc.access_count[tc.cache[j]]
                 /\ \A j \in 1..(i-1) :
                       tc.access_count[tc.cache[j]] > tc.access_count[tc.cache[i]]
    IN tc.cache[idx]

\* ThreadSafeCache._evict: the cache after, and the list of what was removed
\* (the key and the access counts it was chosen from)
ThreadCacheEvict(tc) ==
    IF Len(tc.cache) = 0 THEN [tc |-> tc, evicted |-> <<>>]
    ELSE LET lfu_key == LfuKey(tc)
         IN [tc |-> [tc EXCEPT !.cache = SelectSeq(tc.cache, LAMBDA k : k # lfu_key),
                               !.access_count = DictDel(tc.access_count, lfu_key)],
             evicted |-> <<[key |-> lfu_key, access_count |-> tc.access_count]>>]

\* ThreadSafeCache.put(key, value)
ThreadCachePutState(tc, key) ==
    LET r == IF Len(tc.cache) >= ThreadCacheMaxSize /\ key \notin Range(tc.cache)
             THEN ThreadCacheEvict(tc)
             ELSE [tc |-> tc, evicted |-> <<>>]
    IN [tc |-> [r.tc EXCEPT
                  !.cache = IF key \in Range(r.tc.cache) THEN @ ELSE Append(@, key),
                  !.access_count = DictSet(@, key, 0)],
        evicted |-> r.evicted]

\* thread_cache.put(key, value)
ThreadCachePut(key) ==
    /\ thread_cache' = ThreadCachePutState(thread_cache, key).tc
    /\ thread_cache_log' = [key |-> Some(key), cache_before |-> thread_cache.cache,
                            evicted |-> ThreadCachePutState(thread_cache, key).evicted]
    /\ UNCHANGED <<now, cacheVars, modeVars, pools, tasks, stats, schedVars, captureVars,
                   mlVars, detectVars>>

\* thread_cache.get(key)
ThreadCacheGet(key) ==
    /\ thread_cache.hit_count + thread_cache.miss_count < MaxGets
    /\ thread_cache' =
          IF key \in Range(thread_cache.cache)
          THEN [thread_cache EXCEPT
                  !.hit_count = @ + 1,
                  !.access_count = DictSet(@, key, DictGet(@, key, 0) + 1)]
          ELSE [thread_cache EXCEPT !.miss_count = @ + 1]
    /\ UNCHANGED <<now, cacheVars, modeVars, pools, tasks, stats, schedVars,
                   thread_cache_log, captureVars, mlVars, detectVars>>

\* thread_cache.clear()
ThreadCacheClear ==
    /\ thread_cache' = [cache |-> <<>>, access_count |-> EmptyDict,
                        hit_count |-> 0, miss_count |-> 0]
    /\ UNCHANGED <<now, cacheVars, modeVars, pools, tasks, stats, schedVars,
                   thread_cache_log, captureVars, mlVars, detectVars>>

(***************************************************************************)
(* Initial state: the module-level singletons after import.                *)
(***************************************************************************)
InitCore ==
    /\ now = MaxInterval
    /\ cache = <<>>
    /\ access_times = EmptyDict
    /\ sizes = EmptyDict
    /\ total_size = 0
    /\ evictions = <<>>
    /\ power_mode = BALANCED
    /\ resource_profile = None
    /\ requested_mode = BALANCED
    /\ monitor = [monitoring |-> TRUE, pc |-> "loop", earlier |-> 0, join_until |-> 0]
    /\ resize_pc = "idle"
    /\ mode_change_callbacks = OwnCallbacks
    /\ callback_log = [mode |-> None, registered |-> <<>>, calls |-> <<>>, returned |-> TRUE]
    /\ pools = <<NewPools(BALANCED)>>
    /\ tasks = [t \in Tasks |-> NoTask]
    /\ stats = [tasks_submitted |-> 0, tasks_completed |-> 0, tasks_failed |-> 0]
    /\ thread_cache = [cache |-> <<>>, access_count |-> EmptyDict,
                       hit_count |-> 0, miss_count |-> 0]
    /\ thread_cache_log = [key |-> None, cache_before |-> <<>>, evicted |-> <<>>]
    /\ scheduled_tasks = {}
    /\ sched_running = TRUE
    /\ sched_loop = [pc |-> "get", held |-> None, wake_at |-> 0, earlier |-> <<>>]
    /\ sched_submitted = {}
    /\ sched_log = [calls |-> 0, seq |-> 0, dispatched |-> <<>>, rejected |-> {},
                    requeued |-> {}, join_until |-> 0,
                    runs |-> [i \in SchedTaskIds |-> 0], raised |-> {}, recurring |-> {}]
    /\ frames = <<>>
    /\ last_capture_time = 0
    /\ last_capture_hash = None
    /\ previous_frame = None
    /\ capture_log = <<>>
    /\ regions_call = [pc |-> "idle", calls |-> 0, regions |-> <<>>, sorted_regions |-> <<>>,
                       results |-> <<>>, invoked |-> <<>>, profiles |-> <<>>]
    /\ prediction = [status |-> "none"]
    /\ learn_log = [adds |-> 0, loads |-> 0, passes |-> 0, samples |-> 0, result |-> "none",
                    samples_written |-> FALSE, weights_written |-> FALSE]
    /\ detections = <<>>
    /\ detection_cache = EmptyDict
    /\ detection_history = <<>>
    /\ metrics = [total_detections |-> 0, successful_detections |-> 0]
    /\ pending_feedback = <<>>
    /\ detect_log = [n |-> 0, cached |-> FALSE, calls |-> <<>>,
                     outcomes |-> <<>>, result |-> None, blended |-> FALSE,
                     raised |-> FALSE, error |-> FALSE,
                     text_question |-> FALSE, ml_question |-> FALSE]
    /\ detect_input = [n |-> 0, scene |-> None, fails |-> {}, time |-> 0]
    /\ dup_call = [text |-> <<>>, timestamp |-> 0, last |-> None, result |-> FALSE]
    /\ service = [running |-> FALSE, paused |-> FALSE, error_count |-> 0, end_time |-> 0]
    /\ main_threads = <<>>
    /\ svc_log = [iterations |-> 0, path |-> "none", streak |-> 0, poll |-> None,
                  stopped |-> FALSE]
    /\ limits = EmptyDict
    /\ attempts = EmptyDict
    /\ rate_log = [checks |-> 0, set_limits |-> 0,
                   configured |-> [o \in RateOps |-> 0],
                   granted |-> [o \in RateOps |-> <<>>],
                   denied |-> [o \in RateOps |-> 0], last |-> None]
    /\ config = DEFAULT_CONFIG
    /\ class_config = [default |-> DEFAULT_CONFIG, shared |-> Sections(DEFAULT_CONFIG)]
    /\ config_file = JsonRoundTrip(DEFAULT_CONFIG)
    /\ config_log = [ops |-> 0, op |-> "none", keys |-> <<>>, value |-> NoneV,
                     raised |-> FALSE, config_before |-> DEFAULT_CONFIG,
                     validated |-> None]

\* MLQuestionDetector.__init__ / load_models(): the model files that exist
\* are loaded (fitted); the others stay None
InitModels(loaded) ==
    /\ scaler = Obj(0, "scaler" \in loaded)
    /\ models = [m \in Scorers |-> IF m \in loaded THEN Some(Obj(0, TRUE)) ELSE None]
    /\ train_log = [count |-> 0, result |-> "none", raised |-> FALSE,
                    scaler_before |-> scaler, models_before |-> models]

\* a fresh installation: no model files, config defaults
\* the training samples found at start-up: none, or those of the data file
InitSamples(n) ==
    /\ training_data = Samples(n)
    /\ data_file = IF n = 0 THEN None ELSE Some(Samples(n))

Init ==
    /\ InitCore
    /\ InitModels({})
    /\ InitSamples(0)
    /\ ml_enabled = TRUE

\* any set of model files present at start-up
InitML ==
    /\ InitCore
    /\ \E loaded \in SUBSET (Scorers \cup {"scaler"}) : InitModels(loaded)
    /\ \E n \in {0, MinTrainingData} : InitSamples(n)
    /\ ml_enabled = TRUE

\* the detector with config 'ml_detection' on or off
InitDetect ==
    /\ InitCore
    /\ InitModels({})
    /\ InitSamples(0)
    /\ ml_enabled \in BOOLEAN

(***************************************************************************)
(* Specifications, one per subsystem.                                      *)
(***************************************************************************)
SizeVals == {1, 2, MaxSize + 1}

NextCache ==
    \/ Tick
    \/ \E key \in CacheKeys, size_bytes \in SizeVals : CachePut(key, size_bytes)
    \/ \E key \in CacheKeys : CacheGet(key)
    \/ CacheClear

SpecCache == Init /\ [][NextCache]_vars

NextMode ==
    \/ \E mode \in PowerMode : SetPowerMode(mode)
    \/ InitializePools
    \/ \E p \in Profiles : MonitorTick(p)

SpecMode == Init /\ [][NextMode]_vars

NextPool ==
    \/ \E t \in Tasks, kind \in Kinds : SubmitRead(t, kind)
    \/ \E t \in Tasks : SubmitPick(t)
    \/ \E t \in Tasks : SubmitEnqueue(t)
    \/ \E t \in Tasks : StartTask(t)
    \/ \E t \in Tasks, ok \in BOOLEAN : FinishTask(t, ok)
    \/ \E t \in Tasks : UpdateStats(t)
    \/ \E mode \in ConcreteModes : SetPowerMode(mode)
    \/ InitializePools

SpecPool == Init /\ [][NextPool]_vars

\* the worker threads of an executor keep taking queued work, a running task
\* returns or raises, and the callers and the resizing thread keep running
PoolFairness ==
    /\ \A t \in Tasks : WF_vars(StartTask(t))
    /\ \A t \in Tasks : WF_vars(\E ok \in BOOLEAN : FinishTask(t, ok))
    /\ \A t \in Tasks : WF_vars(UpdateStats(t))
    /\ \A t \in Tasks : WF_vars(SubmitEnqueue(t))
    /\ WF_vars(InitializePools)

SpecPoolFair == SpecPool /\ PoolFairness

NextCapture ==
    \/ Tick
    \/ \E region \in Regions, grab_ok \in BOOLEAN, h \in Hashes, cp \in ChangePixels :
          CaptureScreenCall(region, grab_ok, h, cp)
    \/ \E mode \in ConcreteModes : SetPowerMode(mode)
    \/ InitializePools

SpecCapture == Init /\ [][NextCapture]_vars

NextRegions ==
    \/ Tick
    \/ \E regions \in RegionLists : CaptureRegionsBegin(regions)
    \/ \E grab_ok \in BOOLEAN, h \in Hashes, cp \in ChangePixels :
          CaptureRegionsStep(grab_ok, h, cp)
    \/ \E p \in LoadProfiles : MonitorTick(p)

SpecRegions == Init /\ [][NextRegions]_vars

NextML ==
    \/ \E o \in TrainOutcomes : RetrainModels(o)
    \/ \E sc \in [Scorers -> ScoreVals] : PredictCall(sc)

SpecML == InitML /\ [][NextML]_vars

NextLearn ==
    \/ \E o \in TrainOutcomes : AddTrainingSample(o)
    \/ \E o \in TrainOutcomes : RetrainModels(o)
    \/ LoadTrainingData

SpecLearn == Init /\ [][NextLearn]_vars

NextDetect ==
    \/ Tick
    \/ \E sc \in Scenes, fails \in SUBSET {"text_patterns", "ui_analysis", "ml"} :
          Detect(sc, fails)

SpecDetect == InitDetect /\ [][NextDetect]_vars

\* duplicate suppression: detections of plain text scenes, and is_duplicate
\* asked about new Detections with any of these texts
DupTexts == {T_ab, T_ba, T_aa, T_a, T_long10, T_long11}
PlainScenes ==
    {sc \in ScenesOf({T_ab, T_long11}) :
        sc.ui = <<0, 0>> /\ sc.ml_confidence = 0 /\ ~sc.region /\ sc.options = 0}

NextDup ==
    \/ Tick
    \/ \E sc \in PlainScenes : Detect(sc, {})
    \/ \E text \in DupTexts : IsDuplicate(text)

SpecDup == Init /\ [][NextDup]_vars

\* confidence range: scenes in which all four question patterns match, the
\* context matches and every UI feature is present, so that the raw sums
\* pass 1.0, each with a question region for the ML blend
ConfScenes ==
    [question_text : {T_long11}, pattern_hits : {0, 4}, options : {0, 2},
     context : BOOLEAN, region : BOOLEAN, ui : {<<0, 0>>, <<4, 1>>},
     ml_confidence : {0, 100}]

NextConf ==
    \/ Tick
    \/ \E sc \in ConfScenes : Detect(sc, {})

SpecConf == InitDetect /\ [][NextConf]_vars

\* the text-pattern strategy: OCR results with every number of matching
\* question patterns, option counts around 2, and text lengths on both sides
\* of the (10, 500) window; no UI features and no question region, so that
\* no later strategy hits and the confidence is not blended
TextOfLen(n) == [i \in 1..n |-> "a"]

TextScenes ==
    {sc \in [question_text : {<<>>, T_long10, T_long11, TextOfLen(499), TextOfLen(500)},
             pattern_hits : {0, 1, 2, 4}, options : {1, 2}, context : BOOLEAN,
             region : {FALSE}, ui : {<<0, 0>>}, ml_confidence : {100}] :
        sc.question_text = <<>> => (sc.pattern_hits = 0 /\ sc.options = 1 /\ ~sc.context)}

NextText ==
    \/ Tick
    \/ \E sc \in TextScenes : DetectRecorded(sc, {})

SpecText == InitDetect /\ [][NextText]_vars

\* the scheduler: callers schedule delayed and recurring tasks, the loop
\* thread dispatches them, workers run them, time passes
NextSched ==
    \/ Tick
    \/ \E priority \in SchedPriorities, delay \in SchedDelays : ScheduleTask(priority, delay)
    \/ \E priority \in SchedPriorities, interval \in SchedIntervals :
          ScheduleRecurring(priority, interval)
    \/ \E e \in scheduled_tasks : SchedGet(e)
    \/ SchedWake
    \/ SchedExit
    \/ SchedStop
    \/ \E e \in sched_submitted, ok \in BOOLEAN : RunScheduled(e, ok)

SpecSched == Init /\ [][NextSched]_vars

\* users of the access-count cache
NextThreadCache ==
    \/ \E key \in ThreadCacheKeys : ThreadCachePut(key)
    \/ \E key \in ThreadCacheKeys : ThreadCacheGet(key)
    \/ ThreadCacheClear

SpecThreadCache == Init /\ [][NextThreadCache]_vars

\* mode-change notification: components register callbacks, some of which
\* raise, while callers select modes
NextNotify ==
    \/ \E cb \in ExternalCallbacks : RegisterModeChangeCallback(cb)
    \/ \E mode \in PowerMode : SetPowerMode(mode)
    \/ InitializePools

SpecNotify == Init /\ [][NextNotify]_vars

\* fallback between strategies: frames with and without text, with the
\* text-pattern and the UI strategy raising or not
FallbackScenes == {sc \in Scenes : sc.ml_confidence = 0 /\ sc.ui # <<2, 1>>}

NextFallback ==
    \/ Tick
    \/ \E sc \in FallbackScenes, fails \in SUBSET {"text_patterns", "ui_analysis"} :
          DetectRecorded(sc, fails)

SpecFallback == InitDetect /\ [][NextFallback]_vars

\* the service polling frames that show one of two texts, or nothing new
ServiceScenes ==
    {sc \in ScenesOf({T_ab, T_ba}) :
        sc.ui = <<0, 0>> /\ sc.ml_confidence = 0 /\ ~sc.region /\ sc.options = 0}

ServiceFrames == {None} \cup {Some(sc) : sc \in ServiceScenes}

NextService ==
    \/ Tick
    \/ ServiceStart
    \/ ServiceStop
    \/ \E paused \in BOOLEAN : ServicePause(paused)
    \/ \E th \in ServiceThreads, frame \in ServiceFrames, raises \in RaiseSites,
          answered \in BOOLEAN : MainLoopIteration(th, frame, raises, answered)
    \/ \E th \in ServiceThreads : MainLoopExit(th)

SpecService == Init /\ [][NextService]_vars

NextRate ==
    \/ Tick
    \/ \E operation \in RateOps, max_attempts \in RateAttempts, window_seconds \in RateWindows :
          SetLimit(operation, max_attempts, window_seconds)
    \/ \E operation \in RateOps : CheckLimit(operation)

SpecRate == Init /\ [][NextRate]_vars

\* update() with one top-level key, or with one key of the nested section
ConfigUpdates ==
    {DictV([k \in {key} |-> value]) :
        key \in ValidatedKeys, value \in UNION {ValuesFor(<<k>>) : k \in ValidatedKeys}}
    \cup {DictV([k \in {"detection"} |-> DictV([s \in {"min_question_length"} |-> IntV(7)])])}

NextConfig ==
    \/ \E keys \in ConfigPaths : \E value \in ValuesFor(keys) : ConfigSet(keys, value)
    \/ \E updates \in ConfigUpdates : ConfigUpdate(updates)
    \/ ConfigValidate
    \/ ConfigLoad
    \/ ConfigNew

SpecConfig == Init /\ [][NextConfig]_vars

\* shutdown: the three loop owners running, being stopped, and their loop
\* threads leaving the loop while time passes
StopProfiles ==
    {p \in Profiles : p.cpu_percent = 10 /\ p.memory_percent = 20 /\ p.battery_percent = None}

NextStop ==
    \/ Tick
    \/ \E delay \in {0, 2} : sched_log.calls = 0 /\ ScheduleTask(ThreadPriority.NORMAL, delay)
    \/ \E e \in scheduled_tasks : SchedGet(e)
    \/ SchedWake
    \/ SchedExit
    \/ SchedStop
    \/ \E p \in StopProfiles : MonitorTick(p)
    \/ MonitorExit
    \/ StopMonitoring
    \/ (main_threads = <<>> /\ ServiceStart)
    \/ ServiceStop
    \/ \E th \in ServiceThreads :
          svc_log.iterations = 0 /\ MainLoopIteration(th, None, "none", FALSE)
    \/ \E th \in ServiceThreads : MainLoopExit(th)

\* stop and start again: the scheduler and the resource monitor are stopped
\* and started while their loop threads run, sleep and look at the flag
NextRestart ==
    \/ Tick
    \/ \E delay \in {0, 2} : sched_log.calls = 0 /\ ScheduleTask(ThreadPriority.NORMAL, delay)
    \/ \E e \in scheduled_tasks : SchedGet(e)
    \/ SchedWake
    \/ SchedExit
    \/ SchedStop
    \/ SchedStart
    \/ \E i \in 1..MaxRestarts : SchedRunEarlier(i)
    \/ \E p \in StopProfiles : MonitorTick(p)
    \/ MonitorExit
    \/ MonitorExitEarlier
    \/ StopMonitoring
    \/ StartMonitoring

SpecRestart == Init /\ [][NextRestart]_vars

\* time passes, a sleeping thread wakes up, and a thread at the head of its
\* loop reads the flag
StopFairness ==
    /\ WF_vars(Tick)
    /\ WF_vars(SchedWake)
    /\ WF_vars(SchedExit)
    /\ WF_vars(MonitorExit)
    /\ \A th \in ServiceThreads : WF_vars(MainLoopExit(th))

SpecStop == Init /\ [][NextStop]_vars /\ StopFairness

Next ==
    \/ NextLearn
    \/ NextRestart
    \/ NextRegions
    \/ NextText
    \/ NextStop
    \/ NextConfig
    \/ NextRate
    \/ NextService
    \/ NextFallback
    \/ NextNotify
    \/ NextThreadCache
    \/ NextSched
    \/ NextCache \/ NextMode \/ NextPool \/ NextCapture \/ NextML \/ NextDetect \/ NextDup
    \/ NextConf

Spec == Init /\ [][Next]_vars

(***************************************************************************)
(* Properties.                                                             *)
(***************************************************************************)

\* C1: after every put, get and clear on the CacheManager, with any
\* size_bytes (a put larger than max_size and a put that overwrites a key
\* included), total_size <= max_size.
C1_TotalSizeWithinBudget == total_size <= MaxSize

\* C2: every task that submit_task accepted (executor.submit queued it)
\* eventually finishes as completed or failed, whatever mode changes replace
\* the pools in between: a task queued in an old pool is still run.
C2_AcceptedTasksFinish ==
    \A t \in Tasks :
        (tasks[t].st = "queued") ~> (tasks[t].st \in {"completed", "failed"})

\* C2 witness: a task that was still queued when its executor was shut down
\* has been taken from that queue and has finished.
C2_DrainedTaskFinished ==
    \E t \in Tasks :
        /\ tasks[t].st \in {"completed", "failed"}
        /\ tasks[t].drained
        /\ tasks[t].gen < CurrentGen

\* C3: when a retraining pass raised after it started, the scaler and every
\* scorer a later predict() uses are the objects that were live before the
\* pass.
C3_FailedRetrainKeepsLiveModel ==
    train_log.result = "failed" =>
        /\ scaler = train_log.scaler_before
        /\ models = train_log.models_before

\* the priority order C4 states
C4_Order == <<"template", "text_patterns", "ui_analysis", "ml_classification">>

\* C4: a detect() call that runs the strategies invokes them in the order
\* template, text_patterns, ui_analysis, ml_classification; a strategy is
\* invoked only if every earlier one gave no Detection, and the strategy that
\* gives a Detection is the last one invoked.
C4_StrategiesInPriorityOrder ==
    (detect_log.n > 0 /\ ~detect_log.cached) =>
        LET calls == detect_log.calls
            outcomes == detect_log.outcomes
            n == Len(calls)
        IN /\ n <= Len(C4_Order)
           /\ Len(outcomes) = n
           /\ \A i \in 1..n : calls[i] = C4_Order[i]
           /\ \A i \in 1..n : outcomes[i] = "hit" => i = n
           /\ n < Len(C4_Order) => outcomes[n] = "hit"
           /\ detect_log.result # None <=> (n > 0 /\ outcomes[n] = "hit")

\* C4 witness: text_patterns raised, ui_analysis was tried next and gave the
\* Detection, ml_classification was not invoked.
C4_UiAnalysisWinsAfterTextPatterns ==
    /\ detect_log.n > 0
    /\ detect_log.calls = <<"template", "text_patterns", "ui_analysis">>
    /\ detect_log.outcomes = <<"none", "raise", "hit">>
    /\ detect_log.result # None

\* C5: for a frame that the text-pattern heuristic and the ensemble both
\* classify as a question (no strategy raising), the Detection returned has
\* detection_method exactly 'text_patterns', with the ML blend on or off, on
\* the first call and on every later call for the frame.
C5_MethodIsTextPatterns ==
    (/\ detect_log.n > 0
     /\ detect_log.text_question
     /\ detect_log.ml_question
     /\ ~detect_log.raised) =>
        /\ detect_log.result # None
        /\ detections[The(detect_log.result)].detection_method = <<"text_patterns">>

\* text.split(): the set of words of a text (maximal runs without a blank)
RECURSIVE C6_WordsFrom(_, _, _)
C6_WordsFrom(s, i, word) ==
    IF i > Len(s) THEN (IF word = <<>> THEN {} ELSE {word})
    ELSE IF s[i] = " "
    THEN (IF word = <<>> THEN {} ELSE {word}) \cup C6_WordsFrom(s, i + 1, <<>>)
    ELSE C6_WordsFrom(s, i + 1, Append(word, s[i]))

C6_Words(s) == C6_WordsFrom(s, 1, <<>>)

\* word-set similarity (intersection / union) above 0.9
C6_WordSetSimilar(a, b) ==
    10 * Cardinality(C6_Words(a) \cap C6_Words(b))
        > 9 * Cardinality(C6_Words(a) \cup C6_Words(b))

C7_AdaptiveResolvedEveryTick ==
    [][\A p \in Profiles :
          (requested_mode = ADAPTIVE /\ MonitorTick(p)) => power_mode' = AdaptiveMode(p)]_vars

\* the decision table C8 states
C8_Table(p) ==
    IF p.battery_percent # None /\ The(p.battery_percent) < 30 /\ ~p.power_plugged
    THEN POWER_SAVER
    ELSE IF p.cpu_percent > 60 \/ p.memory_percent > 70 THEN POWER_SAVER
    ELSE IF \/ p.cpu_percent > 80
            \/ p.memory_percent > 85
            \/ (p.battery_percent # None /\ The(p.battery_percent) < 20)
    THEN BALANCED
    ELSE HIGH_PERFORMANCE

\* C8: a monitor tick in Adaptive mode resolves the mode the decision table
\* gives for the sampled profile; a tick in a fixed mode keeps that mode.
C8_ResolvedModeMatchesTable ==
    [][\A p \in Profiles :
          MonitorTick(p) =>
              power_mode' = IF power_mode = ADAPTIVE THEN C8_Table(p) ELSE power_mode]_vars

\* C9: two consecutive capture_screen calls, both made less than the mode's
\* interval after the last accepted capture, return the same frame object,
\* and neither grabs the screen.
C9_CaptureIdempotentInWindow ==
    (/\ Len(capture_log) = 2
     /\ capture_log[1].window
     /\ capture_log[2].window) =>
        /\ capture_log[1].ret = capture_log[2].ret
        /\ ~capture_log[1].grabbed
        /\ ~capture_log[2].grabbed

\* smallest and largest score among the scorers in S
C10_MinScore(f, S) == CHOOSE x \in {f[m] : m \in S} : \A y \in {f[m] : m \in S} : x <= y
C10_MaxScore(f, S) == CHOOSE x \in {f[m] : m \in S} : \A y \in {f[m] : m \in S} : x >= y

\* C10: the combined score of predict() is the weighted average of the
\* scores of the scorers that are present, so it lies between the smallest
\* and the largest score a present scorer returned.
C10_EnsembleOverPresentScorers ==
    (prediction.status = "ok" /\ prediction.present # {}) =>
        LET S == prediction.present
            f == prediction.model_scores
        IN /\ prediction.num * SumOver(S, One, ensemble_weights)
                 = SumOver(S, f, ensemble_weights) * prediction.den
           /\ C10_MinScore(f, S) * prediction.den <= prediction.num
           /\ prediction.num <= C10_MaxScore(f, S) * prediction.den

\* C11: every Detection detect() has produced or returned - by a strategy,
\* after the blend with the ensemble confidence, and after repeated calls
\* answered from the detection cache - has confidence in [0, 1].
C11_ConfidenceInUnitInterval ==
    \A i \in 1..Len(detections) :
        0 <= detections[i].confidence /\ detections[i].confidence <= Unit

\* C11 witness: a Detection whose text-pattern sum passed 1.0 was blended
\* with the ensemble and was returned again, blended once more, from the
\* cache.
C11_CappedBlendedAndCached ==
    /\ detect_log.n = 2
    /\ detect_log.cached
    /\ detect_log.blended
    /\ detect_log.result # None
    /\ \E sc \in DOMAIN detection_cache :
          /\ TextConfidenceUncapped(sc) > Unit
          /\ detection_cache[sc].detection = The(detect_log.result)

\* the entries of task id that are still to run: on the queue, held by the
\* loop while it sleeps, or handed to the pool
C12_Pending(id) ==
    {e \in scheduled_tasks \cup sched_loop.held \cup sched_submitted : e.id = id}

\* C12: after schedule_recurring(task, interval), while the scheduler is
\* running, the task is executed again after each run: whenever a run of the
\* task has returned, another execution of it is pending.
C12_RecurringTaskExecutedAgain ==
    \A id \in sched_log.recurring :
        (sched_running /\ sched_log.runs[id] > 0 /\ id \notin sched_log.raised)
            => C12_Pending(id) # {}

\* C13: delayed tasks are handed to the pool in the order of their scheduled
\* times, whatever their priorities: a task dispatched before another one does
\* not have the later scheduled time, and no task still waiting in the
\* scheduler has a scheduled time earlier than a task already dispatched.
C13_DispatchedInScheduledTimeOrder ==
    LET d == sched_log.dispatched
    IN /\ \A i \in 1..Len(d) : \A j \in 1..Len(d) :
              i < j => d[i].scheduled_time <= d[j].scheduled_time
       /\ \A i \in 1..Len(d) : \A a \in scheduled_tasks \cup sched_loop.held :
              ~(a.scheduled_time < d[i].scheduled_time)

\* no submit_task call is in progress and no worker holds or will take a task
C14_AllIdle == \A t \in Tasks : tasks[t].st \in {"new", "rejected", "completed", "failed"}

\* C14: tasks_submitted counts the submit_task calls, every task that ran
\* was counted once as completed or failed, and once all workers are idle
\* tasks_completed + tasks_failed = tasks_submitted, for any interleaving of
\* workers, submitters and pool resizes.
C14_CountersBalanceWhenIdle ==
    C14_AllIdle =>
        /\ stats.tasks_submitted = Cardinality({t \in Tasks : tasks[t].st # "new"})
        /\ stats.tasks_completed = Cardinality({t \in Tasks : tasks[t].st = "completed"})
        /\ stats.tasks_failed = Cardinality({t \in Tasks : tasks[t].st = "failed"})
        /\ stats.tasks_completed + stats.tasks_failed = stats.tasks_submitted

\* C15: whenever CacheManager.put evicts, each entry it removes has the
\* oldest last-access time among the entries present at that moment.
C15_EvictsLeastRecentlyUsed ==
    \A i \in 1..Len(evictions) :
        LET e == evictions[i]
        IN \A k \in DOMAIN e.access_times : e.access_times[e.key] <= e.access_times[k]

\* C15 witness: a put removed an entry that was not the first one inserted,
\* because a newer access time had been given to the first one.
C15_EvictedEntryRefreshedLater ==
    /\ Len(evictions) > 0
    /\ \E k \in DOMAIN evictions[1].access_times :
           evictions[1].access_times[k] > evictions[1].access_times[evictions[1].key]
    /\ evictions[1].key \in CacheKeys \ {"last_screenshot"}

\* C16: a ThreadSafeCache.put of a new key into a cache holding max_size
\* entries evicts exactly one entry, one whose access count is the lowest of
\* the entries present; a put of a key already present evicts nothing.
C16_EvictsOneLeastFrequentlyUsed ==
    thread_cache_log.key # None =>
        LET key == The(thread_cache_log.key)
            before == thread_cache_log.cache_before
            evicted == thread_cache_log.evicted
        IN /\ (key \notin Range(before) /\ Len(before) = ThreadCacheMaxSize) =>
                 /\ Len(evicted) = 1
                 /\ evicted[1].key \in Range(before)
                 /\ DOMAIN evicted[1].access_count = Range(before)
                 /\ \A k \in Range(before) :
                       evicted[1].access_count[evicted[1].key] <= evicted[1].access_count[k]
           /\ key \in Range(before) => evicted = <<>>

\* C16 witness: a new key was put into a full cache and the entry removed was
\* not the oldest one, which had been read more often.
C16_EvictedLessReadNewerEntry ==
    /\ thread_cache_log.key # None
    /\ Len(thread_cache_log.evicted) = 1
    /\ Len(thread_cache_log.cache_before) = ThreadCacheMaxSize
    /\ thread_cache_log.evicted[1].key # thread_cache_log.cache_before[1]
    /\ The(thread_cache_log.key) \in Range(thread_cache.cache)
    /\ Len(thread_cache.cache) = ThreadCacheMaxSize

\* C17: on a mode change every registered callback is invoked exactly once,
\* in registration order, with the new mode, also after an earlier callback
\* raised; the new mode is already the current one when the callbacks run,
\* and set_power_mode returns normally.
C17_EveryCallbackNotifiedInOrder ==
    callback_log.mode # None =>
        LET calls == callback_log.calls
            registered == callback_log.registered
        IN /\ Len(calls) = Len(registered)
           /\ \A i \in 1..Len(calls) :
                 /\ calls[i].callback = registered[i]
                 /\ calls[i].mode = The(callback_log.mode)
                 /\ calls[i].power_mode = The(callback_log.mode)
           /\ callback_log.returned

\* C17 witness: a callback raised and a callback registered after it was
\* still invoked with the new mode.
C17_LaterCallbackRunsAfterFailure ==
    /\ callback_log.mode # None
    /\ \E i \in 1..Len(callback_log.calls) : \E j \in 1..Len(callback_log.calls) :
          /\ i < j
          /\ callback_log.calls[i].raised
          /\ ~callback_log.calls[j].raised
          /\ callback_log.calls[j].mode = power_mode

\* C18: no downstream component ever observes Adaptive: no mode-change
\* callback is invoked with Adaptive, and every pool set was sized by a
\* lookup of the pool table with a concrete mode.
C18_AdaptiveNeverObservedDownstream ==
    /\ \A i \in 1..Len(callback_log.calls) : callback_log.calls[i].mode \in ConcreteModes
    /\ \A g \in 1..Len(pools) : pools[g].mode \in ConcreteModes

\* C19: a retraining pass whose fitting raises never crashes the pipeline:
\* the exception is absorbed and the retrain_models call returns normally.
C19_FailedRetrainReturnsNormally ==
    train_log.result = "failed" => ~train_log.raised

\* what the strategies that did not raise give for the recorded call
C20_Remaining == SelectSeq(strategies, LAMBDA s : s \notin detect_input.fails)

C20_Expected ==
    StrategyLoop(C20_Remaining, 1, The(detect_input.scene), detect_input.time, {}, NoCalls)

\* C20: when a strategy raises (or lacks its input), detect() does not raise;
\* the failure counts as no result from that strategy only: every strategy is
\* still tried in order until one gives a Detection, and the outcome is what
\* the remaining strategies alone produce.
C20_FailedStrategyCountsAsNoResult ==
    (detect_input.n > 0 /\ detect_input.n = detect_log.n /\ ~detect_log.cached) =>
        /\ ~detect_log.error
        /\ \A i \in 1..Len(detect_log.calls) : detect_log.calls[i] = strategies[i]
        /\ \A i \in 1..Len(detect_log.calls) :
              (detect_log.calls[i] \in detect_input.fails) = (detect_log.outcomes[i] = "raise")
        /\ (detect_log.result = None) = (C20_Expected.detection = None)
        /\ detect_log.result = None => Len(detect_log.calls) = Len(strategies)
        /\ detect_log.result # None =>
              LET d == detections[The(detect_log.result)]
                  e == The(C20_Expected.detection)
              IN /\ d.question_text = e.question_text
                 /\ d.region = e.region
                 /\ d.timestamp = e.timestamp
                 /\ d.screenshot_hash = e.screenshot_hash
                 /\ Head(d.detection_method) = Head(e.detection_method)
                 /\ ~detect_log.blended => d.confidence = e.confidence

\* C20 witness: the text-pattern strategy would have given the Detection but
\* raised, and the Detection returned is the one of the UI analysis.
C20_UiResultWhenTextPatternsRaised ==
    /\ detect_input.n > 0 /\ detect_input.n = detect_log.n /\ ~detect_log.cached
    /\ "text_patterns" \in detect_input.fails
    /\ detect_log.text_question
    /\ detect_log.result # None
    /\ Head(detections[The(detect_log.result)].detection_method) = "ui_analysis"

\* C21: error_count is the number of consecutive failing iterations of the
\* polling loop: every iteration that ends without an exception brings it
\* back to 0, it never exceeds max_errors, and the loop is left because of
\* errors only after max_errors failing iterations in a row.
C21_ErrorCountIsConsecutiveFailures ==
    /\ service.error_count = svc_log.streak
    /\ service.error_count <= max_errors
    /\ \A th \in 1..Len(main_threads) :
          (main_threads[th].exit = "errors" /\ svc_log.path = "error") =>
              svc_log.streak >= max_errors

\* C28: the Detection that detect() returned to the polling loop is compared
\* with the Detection produced before it, never with itself; the first
\* Detection of a session and one whose text differs from the preceding one
\* are not reported as duplicates.
C28_ComparedWithPrecedingDetection ==
    svc_log.poll # None =>
        LET p == The(svc_log.poll)
        IN /\ p.compared_with # p.detection
           /\ (\/ p.previous = None
               \/ detections[The(p.previous)].question_text
                      # detections[p.detection].question_text) => ~p.duplicate

\* C22: of two successive detect() calls on frames with the same hash, the
\* second inside the cache TTL of the first, the second is answered from
\* the cache whenever the first ran the strategy loop, whether or not that
\* loop found a question.
C22_SecondCallAnsweredFromCache ==
    [][(/\ detect_input.n > 0
        /\ detect_input.n = detect_log.n
        /\ ~detect_log.cached
        /\ detect_input'.n = detect_input.n + 1
        /\ detect_input'.scene = detect_input.scene
        /\ detect_input'.time - detect_input.time < cache_ttl)
          => detect_log'.cached]_vars

\* the granted calls of operation o, among those at the times ts, that are
\* younger than its window at time t
C23_Young(o, ts, t) == {i \in 1..Len(ts) : t - ts[i] >= 0 /\ t - ts[i] < limits[o].window}

\* C23: for an operation given one limit (N, W): no span shorter than W holds
\* more than N granted check_limit calls; a call is granted exactly when
\* fewer than N granted calls are younger than W, so the call after N grants
\* is denied and calls are granted again when the grants have aged out;
\* denied calls are not recorded; an operation without a limit is always
\* granted.
C23_AtMostNGrantsPerWindow ==
    /\ \A o \in RateOps : rate_log.configured[o] = 1 =>
          LET g == rate_log.granted[o]
          IN /\ \A i \in 1..Len(g) :
                   Cardinality(C23_Young(o, g, g[i])) <= limits[o].max_attempts
             /\ \E k \in 0..Len(g) : attempts[o] = SubSeq(g, k + 1, Len(g))
    /\ rate_log.last # None =>
          LET c == The(rate_log.last)
          IN /\ ~c.limited => c.result
             /\ (c.limited /\ rate_log.configured[c.operation] = 1) =>
                   (c.result = (Cardinality(C23_Young(c.operation, c.granted_before, c.time))
                                   < limits[c.operation].max_attempts))

\* C23 witness: an operation with one limit was granted N times, then
\* denied, and is granted again later.
C23_GrantedAgainAfterDenial ==
    /\ rate_log.last # None
    /\ LET c == The(rate_log.last)
       IN /\ c.limited /\ c.result
          /\ rate_log.configured[c.operation] = 1
          /\ rate_log.denied[c.operation] >= 1
          /\ Len(c.granted_before) >= limits[c.operation].max_attempts

\* one of the two keys is the other or a dotted extension of it
C24_Overlap(p, q) ==
    LET n == IF Len(p) < Len(q) THEN Len(p) ELSE Len(q)
    IN SubSeq(p, 1, n) = SubSeq(q, 1, n)

\* C24: after set(key, value) has returned, get(key) is value, every key
\* that is neither key nor above or below it has the value it had, and a new
\* Config constructed on the file that set saved gives the same value for
\* every key.
C24_ReadAfterWriteAndReload ==
    (config_log.op = "set" /\ ~config_log.raised) =>
        /\ ConfigGet(config, config_log.keys) = config_log.value
        /\ \A other \in ConfigPaths :
              ~C24_Overlap(other, config_log.keys) =>
                  ConfigGet(config, other) = ConfigGet(config_log.config_before, other)
        /\ ~LoadConfig(config_file).raised
        /\ \A keys \in ConfigPaths :
              ConfigGet(LoadConfig(config_file).config, keys) = ConfigGet(config, keys)

\* the same without the reload
C24_ReadAfterWriteInMemory ==
    (config_log.op = "set" /\ ~config_log.raised) =>
        /\ ConfigGet(config, config_log.keys) = config_log.value
        /\ \A other \in ConfigPaths :
              ~C24_Overlap(other, config_log.keys) =>
                  ConfigGet(config, other) = ConfigGet(config_log.config_before, other)

\* the configurations the four ranges exclude
C25_OutOfRange(cfg) ==
    \/ cfg.items["monitoring_interval"].v < 1
    \/ cfg.items["duration_minutes"].v \notin 1..600
    \/ cfg.items["num_questions"].v \notin 1..1000
    \/ cfg.items["confidence_threshold"].v \notin 0..100

\* C25: whenever validation runs (load of the existing file, update, a call
\* of _validate_config after set) it raises ConfigurationError exactly when
\* monitoring_interval < 1, duration_minutes is outside [1, 600],
\* num_questions outside [1, 1000] or confidence_threshold outside [0, 1].
C25_RejectedExactlyWhenOutOfRange ==
    config_log.validated # None =>
        (config_log.raised = C25_OutOfRange(The(config_log.validated)))

\* C25 witness: a file that set() wrote with duration_minutes = 601 is
\* rejected when a new Config loads it.
C25_LoadRejectsSavedValue ==
    /\ config_log.op = "load"
    /\ config_log.raised
    /\ config_log.validated # None
    /\ The(config_log.validated).items["duration_minutes"].v = 601
    /\ The(config_log.validated).items["monitoring_interval"].v = 5

\* C26: capture_screen changes last_capture_hash, previous_frame and
\* last_capture_time only in a call that accepts the new frame (the call that
\* stores a new frame object); a call that rejects the frame leaves all three
\* as they were.
C26_FieldsChangeOnlyOnAccept ==
    [][(\/ last_capture_hash' # last_capture_hash
        \/ previous_frame' # previous_frame
        \/ last_capture_time' # last_capture_time) => frames' # frames]_vars

\* C27: a Detection object that exists is never changed by a later call: its
\* confidence, detection_method and other fields stay what they were when
\* detect() produced it and stored it in the cache.
C27_DetectionNeverChanged ==
    [][\A id \in 1..Len(detections) :
          id <= Len(detections') /\ detections'[id] = detections[id]]_vars

\* the entries that the scheduler holds (queued, or taken by the loop)
C29_Held == scheduled_tasks \cup sched_loop.held

\* C29: an entry leaves the scheduler (is passed to submit_task) only at or
\* after its scheduled time; taken or woken earlier, it is put back into the
\* queue and not passed on.
C29_NeverSubmittedBeforeItsTime ==
    [][/\ \A e \in C29_Held \ C29_Held' :
             /\ e.scheduled_time <= now
             /\ \/ e.seq \in sched_log'.rejected
                \/ \E i \in 1..Len(sched_log'.dispatched) : sched_log'.dispatched[i] = e
       /\ \A e \in C29_Held :
             (\/ e.seq \in sched_log'.rejected \ sched_log.rejected
              \/ Len(sched_log'.dispatched) > Len(sched_log.dispatched)
                  /\ sched_log'.dispatched[Len(sched_log'.dispatched)] = e)
                => e.scheduled_time <= now
       /\ (/\ sched_loop.pc = "sleep" /\ sched_loop'.pc = "get"
           /\ The(sched_loop.held).scheduled_time > now) =>
             /\ The(sched_loop.held) \in scheduled_tasks'
             /\ sched_log'.dispatched = sched_log.dispatched
             /\ sched_log'.rejected = sched_log.rejected]_vars

\* C29 witness: an entry that the loop put back after waking too early has
\* been passed to the pool later.
C29_RequeuedEntryDispatched ==
    \E i \in 1..Len(sched_log.dispatched) :
        sched_log.dispatched[i].seq \in sched_log.requeued

\* C30: once stop() has cleared the run-flag of the task scheduler, of the
\* resource monitor or of the service, the flag stays false until a start,
\* and the loop thread leaves its loop (unless the service is started again
\* first); stop() itself does not wait for that.
C30_LoopThreadTerminatesAfterStop ==
    /\ (~sched_running) ~> (sched_loop.pc = "done")
    /\ (~monitor.monitoring) ~> (monitor.pc = "done")
    /\ \A th \in ServiceThreads :
          (th <= Len(main_threads) /\ ~service.running)
              ~> (service.running \/ (th <= Len(main_threads) /\ main_threads[th].pc = "done"))
    /\ [][/\ ~sched_running => ~sched_running'
          /\ ~monitor.monitoring => ~monitor'.monitoring
          /\ (~service.running /\ service'.running) => Len(main_threads') > Len(main_threads)
          /\ (sched_running /\ ~sched_running') => sched_loop' = sched_loop
          /\ (monitor.monitoring /\ ~monitor'.monitoring) => monitor'.pc = monitor.pc
          /\ (service.running /\ ~service'.running) => main_threads' = main_threads]_vars

\* C30 witness: each of the three owners was stopped while its thread was in
\* the loop, and all three threads have left their loops.
C30_AllLoopsLeftAfterStop ==
    /\ ~sched_running /\ sched_loop.pc = "done"
    /\ Len(sched_log.dispatched) > 0
    /\ ~monitor.monitoring /\ monitor.pc = "done"
    /\ resource_profile # None
    /\ ~service.running
    /\ Len(main_threads) > 0
    /\ main_threads[1].exit = "stopped"
    /\ svc_log.iterations > 0

\* C31: detect() answers from the cache exactly when the frame has an entry
\* whose age is below the TTL, and then returns that entry's Detection
\* without running a strategy; an entry whose age has reached the TTL is a
\* miss: the strategy loop runs, and the old entry is gone afterwards.
C31_CachedOnlyBelowTtl ==
    [][detect_input'.n = detect_input.n + 1 =>
          LET sc == The(detect_input'.scene)
              held == sc \in DOMAIN detection_cache
          IN /\ detect_log'.cached = (held /\ now - detection_cache[sc].time < cache_ttl)
             /\ detect_log'.cached =>
                   /\ detect_log'.result = Some(detection_cache[sc].detection)
                   /\ detect_log'.calls = <<>>
             /\ (held /\ now - detection_cache[sc].time >= cache_ttl) =>
                   /\ Len(detect_log'.calls) > 0
                   /\ \/ sc \notin DOMAIN detection_cache'
                      \/ detection_cache'[sc].time = now]_vars

\* C31 witness: the frame's Detection had reached the TTL when detect() was
\* called again; the strategies ran and the old entry is no longer cached.
C31_ExpiredEntryRecomputed ==
    /\ detect_input.n = 2 /\ detect_input.n = detect_log.n
    /\ ~detect_log.cached
    /\ Len(detect_log.calls) > 0
    /\ Len(detections) = 1
    /\ detections[1].screenshot_hash = The(detect_input.scene)
    /\ now - detections[1].timestamp >= cache_ttl
    /\ The(detect_input.scene) \notin DOMAIN detection_cache

\* C32: the training-sample log and the scorer weights are written to
\* persistent storage only by a retraining pass that completed successfully:
\* a pass that was skipped for too few samples, or that failed, wrote neither.
C32_WrittenOnlyAfterSuccess ==
    learn_log.result \in {"skipped", "failed"} =>
        ~learn_log.samples_written /\ ~learn_log.weights_written

\* C33: the training-sample buffer is bounded: whatever add_training_sample
\* calls and loads of the persisted log happened, it never holds more samples
\* than its capacity (here the number of samples a pass needs).
C33_BufferBounded == Len(training_data) <= MinTrainingData

\* C34: in capture_regions, a region handled while the system is under high
\* load is skipped (nil result, capture_screen not invoked) when its priority
\* is below HIGH and captured when it is HIGH or CRITICAL; a region handled
\* while the load is not high, or before any profile was sampled, is captured.
C34_SkippedExactlyWhenLowUnderHighLoad ==
    \A k \in 1..Len(regions_call.results) :
        LET region == regions_call.regions[regions_call.sorted_regions[k]]
            profile == regions_call.profiles[k]
            high == profile # None /\ (The(profile).cpu_percent > 60
                                       \/ The(profile).memory_percent > 70)
        IN IF high /\ region.priority \in {Priority.NORMAL, Priority.LOW, Priority.IDLE}
           THEN regions_call.results[k] = None /\ ~regions_call.invoked[k]
           ELSE regions_call.invoked[k]

\* C34 witness: one call under high load that skipped a NORMAL region after
\* capturing a HIGH one
C34_HighCapturedNormalSkipped ==
    /\ regions_call.pc = "done"
    /\ Len(regions_call.results) = 2
    /\ regions_call.regions[regions_call.sorted_regions[1]].priority = Priority.HIGH
    /\ regions_call.regions[regions_call.sorted_regions[2]].priority = Priority.NORMAL
    /\ \A k \in 1..2 : /\ regions_call.profiles[k] # None
                        /\ is_high_load(The(regions_call.profiles[k]))
    /\ regions_call.invoked = <<TRUE, FALSE>>
    /\ regions_call.results[1] # None

C35_Value ==
    LET sc == The(detect_input.scene)
        n == Len(sc.question_text)
        hundredths == 25 * sc.pattern_hits
                      + (IF sc.options >= 2 THEN 30 ELSE 0)
                      + (IF n > 10 /\ n < 500 THEN 20 ELSE 0)
                      + (IF sc.context THEN 25 ELSE 0)
    IN IF hundredths > 100 THEN 100 ELSE hundredths

C35_TextPatternConfidence ==
    (detect_input.n > 0 /\ detect_input.n = detect_log.n /\ ~detect_log.cached) =>
        LET sc == The(detect_input.scene)
            hit == sc.question_text # <<>> /\ C35_Value >= 50
        IN /\ Len(detect_log.calls) >= 2
           /\ detect_log.calls[2] = "text_patterns"
           /\ detect_log.outcomes[2] = (IF hit THEN "hit" ELSE "none")
           /\ hit => /\ detect_log.result # None
                      /\ detections[The(detect_log.result)].question_text = sc.question_text
                      /\ ~detect_log.blended =>
                            100 * detections[The(detect_log.result)].confidence
                               = C35_Value * Unit

\* C35 witness: a Detection returned with a confidence exactly at the
\* threshold, from two options and a text of 499 characters
C35_HitAtThreshold ==
    /\ detect_input.n > 0 /\ detect_input.n = detect_log.n /\ ~detect_log.cached
    /\ The(detect_input.scene).pattern_hits = 0
    /\ Len(The(detect_input.scene).question_text) = 499
    /\ detect_log.outcomes = <<"none", "hit">>
    /\ ~detect_log.blended
    /\ detections[The(detect_log.result)].confidence = Pct(50)

\* C36: after every put, get and clear on the CacheManager, total_size is the
\* sum of the recorded sizes of exactly the entries in the cache, and is not
\* negative (a put that overwrites a key which its own eviction loop then
\* evicts included).
RECURSIVE C36_SumOfSizes(_)
C36_SumOfSizes(keys) ==
    IF keys = {} THEN 0
    ELSE LET k == CHOOSE x \in keys : TRUE
         IN DictGet(sizes, k, 0) + C36_SumOfSizes(keys \ {k})

C36_TotalSizeIsSumOfSizes ==
    /\ total_size = C36_SumOfSizes(CacheKeySet(cache))
    /\ total_size >= 0

\* C37: whatever start / stop calls are made on the TaskScheduler, and
\* start_monitoring / stop_monitoring calls on the ResourceManager, at most
\* one thread of each component is in its loop at any time (a start that
\* follows a stop whose join gave up before the old thread ended included).
C37_SchedLoopThreads ==
    (IF sched_loop.pc # "done" THEN 1 ELSE 0)
    + Cardinality({i \in 1..Len(sched_loop.earlier) : sched_loop.earlier[i].pc # "done"})

C37_MonitorLoopThreads == (IF monitor.pc = "loop" THEN 1 ELSE 0) + monitor.earlier

C37_AtMostOneLoopThread ==
    /\ C37_SchedLoopThreads <= 1
    /\ C37_MonitorLoopThreads <= 1

\* C38: when the main loop ends on its own (time limit, question limit or
\* max_errors), running is false from then on, until a later start(): the
\* health-monitor loop ends and that start() is not rejected.
C38_RunningClearedWhenLoopEnds ==
    (/\ Len(main_threads) > 0
     /\ main_threads[Len(main_threads)].exit \in {"time_limit", "question_limit", "errors"})
        => ~service.running

\* C40: a set() with a dotted key on one Config object changes only that
\* object: the class attribute DEFAULT_CONFIG keeps the built-in values, and
\* a Config created afterwards for a path with no file holds the built-in
\* defaults.
C40_DefaultsNeverModified ==
    /\ class_config.default = DEFAULT_CONFIG
    /\ config_log.op = "new" => config_log.validated = Some(DEFAULT_CONFIG)

====
